---- MODULE Spec2Model ----
(***************************************************************************)
(* Requirement-to-catalog matching engine of the RFP response agent.       *)
(*                                                                         *)
(* Strings are sequences of one-character strings, so that Python's        *)
(* substring test (`in`), str.lower(), str.capitalize() and " ".join() are *)
(* computed character by character.  Real numbers are fixed point:         *)
(* distances in thousandths, scores and rates in millionths.               *)
(*                                                                         *)
(* The sentence encoder and the nearest-neighbour index are external       *)
(* libraries; what index.search() hands back (labels and distances) is an  *)
(* input of every loop iteration of match_requirements.  The query text    *)
(* built by _enhance_with_b2b_context is consumed only by that encoder.    *)
(***************************************************************************)
EXTENDS Integers, Sequences, FiniteSets, TLC

VARIABLES source, catalog, requirements, customer_tier, pc, i, searched,
          matched_products, gaps, result, rfp, workflow_steps, project_data, deal_total

vars == <<source, catalog, requirements, customer_tier, pc, i, searched,
         matched_products, gaps, result, rfp, workflow_steps, project_data, deal_total>>

\* no total under consideration
NoTotal == [rupees |-> 0, paise |-> 0]

\* the empty dictionary {} of ChiefOrchestrator.__init__
EmptyDict == [k \in {} |-> 0]

(***************************************************************************)
(* Python string primitives                                                *)
(***************************************************************************)

\* str.lower() on one character
LowerChar(c) ==
    CASE c = "A" -> "a" [] c = "B" -> "b" [] c = "C" -> "c" [] c = "D" -> "d"
      [] c = "E" -> "e" [] c = "F" -> "f" [] c = "G" -> "g" [] c = "H" -> "h"
      [] c = "I" -> "i" [] c = "J" -> "j" [] c = "K" -> "k" [] c = "L" -> "l"
      [] c = "M" -> "m" [] c = "N" -> "n" [] c = "O" -> "o" [] c = "P" -> "p"
      [] c = "Q" -> "q" [] c = "R" -> "r" [] c = "S" -> "s" [] c = "T" -> "t"
      [] c = "U" -> "u" [] c = "V" -> "v" [] c = "W" -> "w" [] c = "X" -> "x"
      [] c = "Y" -> "y" [] c = "Z" -> "z" [] OTHER -> c

\* str.upper() on one character
UpperChar(c) ==
    CASE c = "a" -> "A" [] c = "b" -> "B" [] c = "c" -> "C" [] c = "d" -> "D"
      [] c = "e" -> "E" [] c = "f" -> "F" [] c = "g" -> "G" [] c = "h" -> "H"
      [] c = "i" -> "I" [] c = "j" -> "J" [] c = "k" -> "K" [] c = "l" -> "L"
      [] c = "m" -> "M" [] c = "n" -> "N" [] c = "o" -> "O" [] c = "p" -> "P"
      [] c = "q" -> "Q" [] c = "r" -> "R" [] c = "s" -> "S" [] c = "t" -> "T"
      [] c = "u" -> "U" [] c = "v" -> "V" [] c = "w" -> "W" [] c = "x" -> "X"
      [] c = "y" -> "Y" [] c = "z" -> "Z" [] OTHER -> c

\* s.lower()
lower(s) == [k \in 1..Len(s) |-> LowerChar(s[k])]

\* s.capitalize(): first character upper-cased, the rest lower-cased
capitalize(s) == [k \in 1..Len(s) |-> IF k = 1 THEN UpperChar(s[k]) ELSE LowerChar(s[k])]

\* sub in s
Contains(s, sub) ==
    \E k \in 0..(Len(s) - Len(sub)) : SubSeq(s, k + 1, k + Len(sub)) = sub

\* any(w in s for w in words)
ContainsAny(s, words) == \E k \in 1..Len(words) : Contains(s, words[k])

\* " ".join(texts)
RECURSIVE JoinSpace(_)
JoinSpace(texts) ==
    IF Len(texts) = 0 THEN <<>>
    ELSE IF Len(texts) = 1 THEN texts[1]
    ELSE texts[1] \o <<" ">> \o JoinSpace(Tail(texts))

\* f"{n:03d}" for 0 <= n
Digit(d) == CASE d = 0 -> "0" [] d = 1 -> "1" [] d = 2 -> "2" [] d = 3 -> "3"
              [] d = 4 -> "4" [] d = 5 -> "5" [] d = 6 -> "6" [] d = 7 -> "7"
              [] d = 8 -> "8" [] d = 9 -> "9"

RECURSIVE Decimal(_)
Decimal(n) == IF n < 10 THEN <<Digit(n)>> ELSE Decimal(n \div 10) \o <<Digit(n % 10)>>

Pad3(n) ==
    LET d == Decimal(n)
    IN  IF Len(d) >= 3 THEN d
        ELSE IF Len(d) = 2 THEN <<"0">> \o d
        ELSE <<"0", "0">> \o d

\* variant: the label built from the 0-based index itself
RequirementId_zerobased(idx) == <<"R", "E", "Q", "-">> \o Pad3(idx)

\* f"REQ-{i+1:03d}" for the 0-based loop index idx
RequirementId(idx) == <<"R", "E", "Q", "-">> \o Pad3(idx + 1)

(***************************************************************************)
(* Fixed-point numbers                                                     *)
(***************************************************************************)

\* A float is held as the exact fraction num/den it was computed from.  The
\* binary double of that fraction is M * 2^(L - 52) with M a 53-bit integer;
\* round(x, 3) returns the thousandth nearest to the double, so a fraction
\* that lies midway between two thousandths goes to the side the double fell
\* on, and to the even thousandth only when the double is the fraction itself.

\* floor(log2(a / b)) for a, b > 0
RECURSIVE Log2Floor(_, _)
Log2Floor(a, b) ==
    IF a >= 2 * b THEN 1 + Log2Floor(a, 2 * b)
    ELSE IF a >= b THEN 0
    ELSE Log2Floor(2 * a, b) - 1

\* (a * 2^k) % m
RECURSIVE MulPow2Mod(_, _, _)
MulPow2Mod(a, k, m) ==
    IF k = 0 \/ a = 0 THEN a % m ELSE MulPow2Mod((2 * (a % m)) % m, k - 1, m)

\* the double of num / den, num > 0: the exponent L, the mantissa modulo 16,
\* and excess = (M - num * 2^(52 - L) / den) * den, the error of the mantissa
DoubleOf(num, den) ==
    LET L == Log2Floor(num, den)
        amod == MulPow2Mod(num, 52 - L, 16 * den)
        fl16 == amod \div den
        rem == amod % den
        up == 2 * rem > den \/ (2 * rem = den /\ fl16 % 2 = 1)
    IN  [L |-> L,
         low |-> (fl16 + (IF up THEN 1 ELSE 0)) % 16,
         excess |-> IF up THEN den - rem ELSE 0 - rem]

\* the product (num / den) * 1.25 of doubles less 1.25 * num / den, up to a
\* positive factor: the mantissa 5 * M is cut by two bits, or by three when it
\* reaches 2^55, rounding half to even
ProductSide(num, den) ==
    LET d == DoubleOf(num, den)
        cut == IF Log2Floor(5 * num, 8 * den) < d.L THEN 4 ELSE 8
        lo == (5 * d.low) % cut
        up == 2 * lo > cut \/ (2 * lo = cut /\ ((5 * d.low) \div cut) % 2 = 1)
        rho == IF up THEN cut - lo ELSE 0 - lo
    IN  rho * den + 5 * d.excess

\* round(x, 3), in millionths, of a double x near the fraction num / den;
\* side is positive when x is above the fraction, negative when it is below
\* and 0 when it is the fraction, and matters only for a fraction midway
\* between two thousandths
RoundTo3(num, den, side) ==
    LET q == (1000 * num) \div den
        r == (1000 * num) % den
    IN  IF 2 * r > den THEN (q + 1) * 1000
        ELSE IF 2 * r < den THEN q * 1000
        ELSE IF side > 0 THEN (q + 1) * 1000
        ELSE IF side < 0 THEN q * 1000
        ELSE IF q % 2 = 0 THEN q * 1000 ELSE (q + 1) * 1000

\* round(num / den, 3), in millionths
Round3Frac(num, den) ==
    RoundTo3(num, den, IF num > 0 THEN DoubleOf(num, den).excess ELSE 0)

\* round(x, 3), in millionths, of a float x held as the fraction x.num / x.den
Round3(x) == Round3Frac(x.num, x.den)

(***************************************************************************)
(* Catalog Store: data/product_catalog.json as loaded by json.load         *)
(***************************************************************************)

ItemA == [sku |-> <<"S", "K", "U", "-", "A", "1">>, name |-> <<"P", "l", "a", "n", "t", " ", "S", "u", "i", "t", "e">>, description |-> <<"l", "i", "n", "e", " ", "c", "o", "n", "t", "r", "o", "l">>,
          category |-> <<"M", "a", "n", "u", "f", "a", "c", "t", "u", "r", "i", "n", "g">>, technical_keywords |-> << <<"s", "c", "a", "d", "a">> >>,
          base_price |-> 100000]

ItemB == [sku |-> <<"S", "K", "U", "-", "B", "2">>, name |-> <<"D", "a", "t", "a", " ", "H", "u", "b">>, description |-> <<"E", "R", "P", " ", "i", "n", "t", "e", "g", "r", "a", "t", "i", "o", "n">>,
          category |-> <<"S", "o", "f", "t", "w", "a", "r", "e">>, technical_keywords |-> << <<"v", "p", "n">>, <<"e", "t", "l">> >>,
          base_price |-> 40000]

ItemC == [sku |-> <<"S", "K", "U", "-", "C", "3">>, name |-> <<"E", "d", "g", "e", " ", "B", "o", "x">>, description |-> <<"C", "l", "o", "u", "d", " ", "s", "e", "r", "v", "e", "r", "s">>,
          category |-> <<"I", "n", "f", "r", "a", "s", "t", "r", "u", "c", "t", "u", "r", "e">>, technical_keywords |-> << <<"S", "A", "P">> >>,
          base_price |-> 250000]

ItemD == [sku |-> <<"S", "K", "U", "-", "D", "4">>, name |-> <<"L", "i", "n", "e", " ", "T", "r", "a", "c", "k", "e", "r">>, description |-> <<"s", "h", "o", "p", " ", "f", "l", "o", "o", "r">>,
          category |-> <<"M", "a", "n", "u", "f", "a", "c", "t", "u", "r", "i", "n", "g">>, technical_keywords |-> << <<"m", "e", "s">> >>,
          base_price |-> 60000]

ItemE == [sku |-> <<"S", "K", "U", "-", "E", "5">>, name |-> <<"L", "e", "d", "g", "e", "r", " ", "V", "a", "u", "l", "t">>, description |-> <<"a", "u", "d", "i", "t", " ", "t", "r", "a", "i", "l">>,
          category |-> <<"S", "o", "f", "t", "w", "a", "r", "e">>, technical_keywords |-> << <<"l", "e", "d", "g", "e", "r">> >>,
          base_price |-> 99999]

\* the file at catalog_path holding {"products": [...]}
CatalogFile(products) == [kind |-> "json", products |-> products]

\* the catalogs a run may have loaded
Catalogs == { <<>>, <<ItemA>>, <<ItemA, ItemB>> }

(***************************************************************************)
(* Requirement statements handed to match_requirements                     *)
(***************************************************************************)

MaxReqs == 3

ReqTexts == { <<"H", "e", "r", "o", " ", "p", "l", "a", "n", "t", " ", "v", "p", "n">>, <<"a", "u", "d", "i", "t">> }

ReqLists == UNION { [1..n -> ReqTexts] : n \in 0..MaxReqs }

(***************************************************************************)
(* ProductMatcher constants                                                *)
(***************************************************************************)

\* self.target_clients
target_clients == << <<"A", "s", "i", "a", "n", " ", "P", "a", "i", "n", "t", "s">>, <<"T", "a", "t", "a", " ", "C", "a", "p", "i", "t", "a", "l">>, <<"H", "e", "r", "o">>, <<"A", "d", "i", "t", "y", "a", " ", "B", "i", "r", "l", "a">>, <<"F", "i", "r", "s", "t", "s", "o", "u", "r", "c", "e">> >>

\* gap_reason literals
PartialMatchReason == "Partial match, consider custom solution"

SpecializedReason == "Specialized enterprise requirement - may need customization"

(***************************************************************************)
(* Similarity Index: LocalVectorSearch.find_similar_products               *)
(***************************************************************************)

\* k of find_similar_products(enhanced_text, k=3)
SearchK == 3

\* distances (thousandths) the index may report for the nearest catalog entry
TopDistances == {0, 999, 1000}

\* what index.search pads with when fewer than k entries exist: label -1 and
\* the largest float32 (any distance this large gives a score of 0.000000)
PadEntry == [idx |-> -1, distance |-> 2000000000]

\* the label of the (j+1)-th catalog entry other than top, in index order
OtherIdx(top, j) == IF j < top THEN j ELSE j + 1

\* zip(indices[0], distances[0]) for an index of n entries whose nearest
\* entry is top at distance d; the others follow further away
Ranking(n, top, d) ==
    [k \in 1..SearchK |->
        IF k = 1 THEN [idx |-> top, distance |-> d]
        ELSE IF k <= n THEN [idx |-> OtherIdx(top, k - 2), distance |-> 3000]
        ELSE PadEntry]

\* every outcome of index.search(query, k) over n entries: always k labels,
\* the nearest entries first and -1 where the index has fewer than k
SearchOutputs(n) ==
    { Ranking(n, top, d) : top \in 0..(n - 1), d \in TopDistances }
    \cup (IF n = 0 THEN { [k \in 1..SearchK |-> PadEntry] } ELSE {})

\* float(1 / (1 + distance)) for a distance in thousandths, as a fraction
similarity(distance) == [num |-> 1000, den |-> 1000 + distance]

\* the float x, held as a fraction, exceeds the given number of thousandths
Exceeds(x, thousandths) == 1000 * x.num > thousandths * x.den

\* products[idx] with Python's negative indexing
PyIndex(products, idx) ==
    IF idx >= 0 THEN products[idx + 1] ELSE products[Len(products) + idx + 1]

\* self.products[idx] raises IndexError for some entry that passes the filter
SearchRaises(products, raw) ==
    \E k \in 1..Len(raw) :
        /\ raw[k].idx < Len(products)
        /\ raw[k].idx < 0 - Len(products)

\* product.copy() with product['similarity_score'] set
Scored(product, distance) ==
    [sku |-> product.sku, name |-> product.name, description |-> product.description,
     category |-> product.category, technical_keywords |-> product.technical_keywords,
     base_price |-> product.base_price, similarity_score |-> similarity(distance)]

RECURSIVE find_similar_products(_, _)
find_similar_products(products, raw) ==
    IF Len(raw) = 0 THEN <<>>
    ELSE LET rest == find_similar_products(products, Tail(raw))
         IN  IF Head(raw).idx < Len(products)
             THEN <<Scored(PyIndex(products, Head(raw).idx), Head(raw).distance)>> \o rest
             ELSE rest

(***************************************************************************)
(* Keyword Fallback Matcher: ProductMatcher._keyword_based_match           *)
(***************************************************************************)

\* lines 147-150: a technical keyword of the product occurs in the requirement
DirectKeywordCheck(product, requirement_lower) ==
    \E k \in 1..Len(product.technical_keywords) :
        Contains(requirement_lower, product.technical_keywords[k])

\* lines 152-155: manufacturing requirement, manufacturing product name
IndustryCheck(product, requirement_lower) ==
    /\ ContainsAny(requirement_lower, << <<"m", "a", "n", "u", "f", "a", "c", "t", "u", "r">>, <<"p", "l", "a", "n", "t">>, <<"f", "a", "c", "t", "o", "r", "y">> >>)
    /\ \/ Contains(lower(product.name), <<"m", "a", "n", "u", "f", "a", "c", "t", "u", "r">>)
       \/ Contains(lower(product.name), <<"p", "l", "a", "n", "t">>)

\* lines 157-161: ERP requirement, ERP product name or description
ErpCheck(product, requirement_lower) ==
    /\ ContainsAny(requirement_lower, << <<"s", "a", "p">>, <<"o", "r", "a", "c", "l", "e">>, <<"e", "r", "p">> >>)
    /\ \E w \in { <<"s", "a", "p">>, <<"o", "r", "a", "c", "l", "e">>, <<"e", "r", "p">>, <<"i", "n", "t", "e", "g", "r", "a", "t", "i", "o", "n">> } :
          Contains(lower(product.name), w) \/ Contains(lower(product.description), w)

\* lines 163-167: cloud requirement, cloud product name or description
CloudCheck(product, requirement_lower) ==
    /\ ContainsAny(requirement_lower, << <<"c", "l", "o", "u", "d">>, <<"h", "o", "s", "t", "i", "n", "g">>, <<"s", "e", "r", "v", "e", "r">> >>)
    /\ \E w \in { <<"c", "l", "o", "u", "d">>, <<"s", "e", "r", "v", "e", "r">>, <<"i", "n", "f", "r", "a", "s", "t", "r", "u", "c", "t", "u", "r", "e">> } :
          Contains(lower(product.name), w) \/ Contains(lower(product.description), w)

\* the four checks made on one product, in the order the loop body makes them
KeywordHit(product, requirement_lower) ==
    \/ DirectKeywordCheck(product, requirement_lower)
    \/ IndustryCheck(product, requirement_lower)
    \/ ErpCheck(product, requirement_lower)
    \/ CloudCheck(product, requirement_lower)

\* the first product of a list that passes the given check, <<>> if none does
RECURSIVE FirstPassing(_, _, _)
FirstPassing(Check(_, _), products, requirement_lower) ==
    IF Len(products) = 0 THEN <<>>
    ELSE IF Check(Head(products), requirement_lower) THEN <<Head(products)>>
    ELSE FirstPassing(Check, Tail(products), requirement_lower)

\* variant: `return product` outside the checks
KeywordScan_firstproduct(products, requirement_lower) ==
    IF Len(products) = 0 THEN <<>> ELSE <<Head(products)>>

\* variant: each check tried on the whole catalog before the next check
KeywordScan_checkmajor(products, requirement_lower) ==
    LET a == FirstPassing(DirectKeywordCheck, products, requirement_lower)
        b == FirstPassing(IndustryCheck, products, requirement_lower)
        c == FirstPassing(ErpCheck, products, requirement_lower)
        d == FirstPassing(CloudCheck, products, requirement_lower)
    IN  IF Len(a) > 0 THEN a ELSE IF Len(b) > 0 THEN b ELSE IF Len(c) > 0 THEN c ELSE d

\* for product in self.catalog['products']: ... return product
RECURSIVE KeywordScan(_, _)
KeywordScan(products, requirement_lower) ==
    IF Len(products) = 0 THEN <<>>
    ELSE IF KeywordHit(Head(products), requirement_lower) THEN <<Head(products)>>
    ELSE KeywordScan(Tail(products), requirement_lower)

\* <<product>> for a returned product, <<>> for None
_keyword_based_match(products, requirement_text) ==
    KeywordScan(products, lower(requirement_text))

(***************************************************************************)
(* Bundle recommendation: ProductMatcher._suggest_bundle                   *)
(***************************************************************************)

\* <<product>> for the first product carrying the sku, <<>> for None
RECURSIVE _get_product_by_sku(_, _)
_get_product_by_sku(products, sku) ==
    IF Len(products) = 0 THEN <<>>
    ELSE IF Head(products).sku = sku THEN <<Head(products)>>
    ELSE _get_product_by_sku(Tail(products), sku)

\* industry_keywords, in the dictionary's insertion order
industry_keywords ==
    << [industry |-> <<"m", "a", "n", "u", "f", "a", "c", "t", "u", "r", "i", "n", "g">>,
        keywords |-> << <<"m", "a", "n", "u", "f", "a", "c", "t", "u", "r">>, <<"p", "l", "a", "n", "t">>, <<"f", "a", "c", "t", "o", "r", "y">>, <<"p", "r", "o", "d", "u", "c", "t", "i", "o", "n">>, <<"i", "n", "d", "u", "s", "t", "r", "i", "a", "l">> >>],
       [industry |-> <<"f", "i", "n", "a", "n", "c", "i", "a", "l">>,
        keywords |-> << <<"f", "i", "n", "a", "n", "c", "i", "a", "l">>, <<"b", "a", "n", "k">>, <<"i", "n", "s", "u", "r", "a", "n", "c", "e">>, <<"f", "i", "n", "a", "n", "c", "e">> >>],
       [industry |-> <<"r", "e", "t", "a", "i", "l">>,
        keywords |-> << <<"r", "e", "t", "a", "i", "l">>, <<"e", "c", "o", "m", "m", "e", "r", "c", "e">>, <<"s", "t", "o", "r", "e">>, <<"s", "a", "l", "e", "s">> >>] >>

\* the keys of the categories dictionary, in insertion order
RECURSIVE CategoryKeys(_, _, _)
CategoryKeys(products, matches, seen) ==
    IF Len(matches) = 0 THEN seen
    ELSE LET product == _get_product_by_sku(products, Head(matches).matched_sku)
             known   == Len(product) > 0 /\ \E k \in 1..Len(seen) : seen[k] = product[1].category
         IN  CategoryKeys(products, Tail(matches),
                          IF Len(product) = 0 \/ known THEN seen
                          ELSE Append(seen, product[1].category))

\* categories[category]
CategoryCount(products, matches, category) ==
    Cardinality({ k \in 1..Len(matches) :
        LET product == _get_product_by_sku(products, matches[k].matched_sku)
        IN  Len(product) > 0 /\ product[1].category = category })

\* max(categories, key=categories.get): the first key holding the largest count
MaxCategory(products, matches) ==
    LET keys == CategoryKeys(products, matches, <<>>)
        best == CHOOSE k \in 1..Len(keys) :
                  /\ \A j \in 1..Len(keys) :
                        CategoryCount(products, matches, keys[j])
                          <= CategoryCount(products, matches, keys[k])
                  /\ \A j \in 1..(k - 1) :
                        CategoryCount(products, matches, keys[j])
                          < CategoryCount(products, matches, keys[k])
    IN  keys[best]

\* variant: the last family with a keyword wins
IndustryScan_lastfamily(k, rfp_lower) ==
    LET hits == { j \in k..Len(industry_keywords) :
                    ContainsAny(rfp_lower, industry_keywords[j].keywords) }
        last == CHOOSE j \in hits : \A h \in hits : h <= j
    IN  IF hits = {} THEN <<>>
        ELSE capitalize(industry_keywords[last].industry) \o <<" ", "E", "n", "t", "e", "r", "p", "r", "i", "s", "e", " ", "C", "o", "m", "p", "l", "e", "t", "e", " ", "B", "u", "n", "d", "l", "e">>

\* the loop over industry_keywords from entry k on; <<>> when it falls through
RECURSIVE IndustryScan(_, _)
IndustryScan(k, rfp_lower) ==
    IF k > Len(industry_keywords) THEN <<>>
    ELSE IF ContainsAny(rfp_lower, industry_keywords[k].keywords)
         THEN capitalize(industry_keywords[k].industry) \o <<" ", "E", "n", "t", "e", "r", "p", "r", "i", "s", "e", " ", "C", "o", "m", "p", "l", "e", "t", "e", " ", "B", "u", "n", "d", "l", "e">>
         ELSE IndustryScan(k + 1, rfp_lower)

_suggest_bundle(products, matches, rfp_text) ==
    IF Len(matches) = 0
    THEN IF ContainsAny(lower(rfp_text), << <<"m", "a", "n", "u", "f", "a", "c", "t", "u", "r">>, <<"p", "l", "a", "n", "t">>, <<"f", "a", "c", "t", "o", "r", "y">> >>)
         THEN <<"M", "a", "n", "u", "f", "a", "c", "t", "u", "r", "i", "n", "g", " ", "D", "i", "g", "i", "t", "a", "l", " ", "T", "r", "a", "n", "s", "f", "o", "r", "m", "a", "t", "i", "o", "n", " ", "B", "u", "n", "d", "l", "e">>
         ELSE IF ContainsAny(lower(rfp_text), << <<"f", "i", "n", "a", "n", "c", "i", "a", "l">>, <<"b", "a", "n", "k">>, <<"i", "n", "s", "u", "r", "a", "n", "c", "e">> >>)
         THEN <<"F", "i", "n", "a", "n", "c", "i", "a", "l", " ", "S", "e", "r", "v", "i", "c", "e", "s", " ", "E", "n", "t", "e", "r", "p", "r", "i", "s", "e", " ", "B", "u", "n", "d", "l", "e">>
         ELSE <<"E", "n", "t", "e", "r", "p", "r", "i", "s", "e", " ", "B", "u", "s", "i", "n", "e", "s", "s", " ", "S", "o", "l", "u", "t", "i", "o", "n", " ", "B", "u", "n", "d", "l", "e">>
    ELSE LET byIndustry == IndustryScan(1, lower(rfp_text))
         IN  IF Len(byIndustry) > 0 THEN byIndustry
             ELSE IF Len(CategoryKeys(products, matches, <<>>)) > 0
             THEN MaxCategory(products, matches) \o <<" ", "E", "n", "t", "e", "r", "p", "r", "i", "s", "e", " ", "B", "u", "n", "d", "l", "e">>
             ELSE <<"S", "t", "a", "n", "d", "a", "r", "d", " ", "E", "n", "t", "e", "r", "p", "r", "i", "s", "e", " ", "S", "o", "l", "u", "t", "i", "o", "n", " ", "B", "u", "n", "d", "l", "e">>

(***************************************************************************)
(* Matching Engine: ProductMatcher.match_requirements                      *)
(***************************************************************************)

\* variant: >= in place of >
AcceptsSemantic_inclusive(score) == 1000 * score.num >= 500 * score.den

\* line 44: the top candidate is accepted
AcceptsSemantic(score) == Exceeds(score, 500)

\* line 51: the confidence tier of an accepted candidate
ConfidenceOf(score) == IF Exceeds(score, 700) THEN "High" ELSE "Medium"

\* lines 45-53
SemanticEntry(idx, best_match) ==
    [requirement_id |-> RequirementId(idx),
     matched_product |-> best_match.name,
     matched_sku |-> best_match.sku,
     similarity_score |-> Round3(best_match.similarity_score),
     confidence |-> ConfidenceOf(best_match.similarity_score),
     notes |-> "Addresses"]

\* variant: the placeholder score of the direct branch
KeywordEntry_directscore(idx, product) ==
    [requirement_id |-> RequirementId(idx),
     matched_product |-> product.name,
     matched_sku |-> product.sku,
     similarity_score |-> 650000,
     confidence |-> "Medium",
     notes |-> "Keyword match for enterprise requirement"]

\* lines 58-66
KeywordEntry(idx, product) ==
    [requirement_id |-> RequirementId(idx),
     matched_product |-> product.name,
     matched_sku |-> product.sku,
     similarity_score |-> 600000,
     confidence |-> "Medium",
     notes |-> "Keyword match for enterprise requirement"]

\* lines 79-87
DirectKeywordEntry(idx, product) ==
    [requirement_id |-> RequirementId(idx),
     matched_product |-> product.name,
     matched_sku |-> product.sku,
     similarity_score |-> 650000,
     confidence |-> "Medium",
     notes |-> "Direct keyword match for enterprise context"]

\* variant: the score a gap without a candidate is said to carry
PartialGap_noscore(idx, best_match) ==
    [requirement_id |-> RequirementId(idx),
     best_match |-> best_match.name,
     match_score |-> 0,
     gap_reason |-> PartialMatchReason]

\* variant: the reason of the other gap branch
PartialGap_otherreason(idx, best_match) ==
    [requirement_id |-> RequirementId(idx),
     best_match |-> best_match.name,
     match_score |-> Round3(best_match.similarity_score),
     gap_reason |-> SpecializedReason]

\* lines 68-74
PartialGap(idx, best_match) ==
    [requirement_id |-> RequirementId(idx),
     best_match |-> best_match.name,
     match_score |-> Round3(best_match.similarity_score),
     gap_reason |-> PartialMatchReason]

\* lines 89-93: this dictionary has no best_match and no match_score key; the
\* branch of lines 75-93 needs an empty similar_products, which no outcome of
\* index.search gives
SpecializedGap(idx) ==
    [requirement_id |-> RequirementId(idx),
     gap_reason |-> SpecializedReason]

\* the loop body for requirement number idx (0-based) given similar_products:
\* the record that is appended and the list it is appended to
MatchOne(products, idx, text, similar_products) ==
    LET req_text == lower(text)
        keyword_match == _keyword_based_match(products, req_text)
    IN  IF Len(similar_products) > 0
        THEN LET best_match == similar_products[1]
             IN  IF AcceptsSemantic(best_match.similarity_score)
                 THEN [list |-> "matched_products", entry |-> SemanticEntry(idx, best_match)]
                 ELSE IF Len(keyword_match) > 0
                 THEN [list |-> "matched_products",
                       entry |-> KeywordEntry(idx, keyword_match[1])]
                 ELSE [list |-> "gaps", entry |-> PartialGap(idx, best_match)]
        ELSE IF Len(keyword_match) > 0
             THEN [list |-> "matched_products",
                   entry |-> DirectKeywordEntry(idx, keyword_match[1])]
             ELSE [list |-> "gaps", entry |-> SpecializedGap(idx)]

\* any(client.lower() in rfp_text_combined.lower() for client in self.target_clients)
IsTargetClient(rfp_text_combined) ==
    \E k \in 1..Len(target_clients) :
        Contains(lower(rfp_text_combined), lower(target_clients[k]))

\* variant: the boost without the min(1.0, ...) cap
BoostedRate_uncapped(matched_count, total_reqs) ==
    [num |-> 5 * matched_count, den |-> 4 * total_reqs]

\* variant: a boost factor of 1.2
BoostedRate_fifth(matched_count, total_reqs) ==
    IF 6 * matched_count >= 5 * total_reqs
    THEN [num |-> 1, den |-> 1]
    ELSE [num |-> 6 * matched_count, den |-> 5 * total_reqs]

\* min(1.0, match_rate * 1.25) as a fraction num/den of matched_count/total_reqs
BoostedRate(matched_count, total_reqs) ==
    IF 5 * matched_count >= 4 * total_reqs
    THEN [num |-> 1, den |-> 1]
    ELSE [num |-> 5 * matched_count, den |-> 4 * total_reqs]

\* variant: an empty requirement list counted as fully matched
MatchRate_vacuous(matched_count, total_reqs, rfp_text_combined) ==
    LET base == IF total_reqs > 0
                THEN [num |-> matched_count, den |-> total_reqs]
                ELSE [num |-> 1, den |-> 1]
        boosted == BoostedRate(base.num, base.den)
    IN  IF IsTargetClient(rfp_text_combined)
        THEN RoundTo3(boosted.num, boosted.den,
                      IF base.num > 0 THEN ProductSide(base.num, base.den) ELSE 0)
        ELSE Round3Frac(base.num, base.den)

\* lines 95-108: round(match_rate, 3), in millionths, of the quotient
\* matched_count / total_reqs or of its double product with 1.25
MatchRate(matched_count, total_reqs, rfp_text_combined) ==
    LET base == IF total_reqs > 0
                THEN [num |-> matched_count, den |-> total_reqs]
                ELSE [num |-> 0, den |-> 1]
        boosted == BoostedRate(base.num, base.den)
    IN  IF IsTargetClient(rfp_text_combined)
        THEN RoundTo3(boosted.num, boosted.den,
                      IF base.num > 0 THEN ProductSide(base.num, base.den) ELSE 0)
        ELSE Round3Frac(base.num, base.den)

Init ==
    /\ catalog \in Catalogs
    /\ source = CatalogFile(catalog)
    /\ customer_tier = <<"e", "n", "t", "e", "r", "p", "r", "i", "s", "e">>
    /\ requirements \in ReqLists
    /\ pc = "loop"
    /\ i = 0
    /\ searched = <<>>
    /\ matched_products = <<>>
    /\ gaps = <<>>
    /\ result = <<>>
    /\ rfp = <<>>
    /\ workflow_steps = <<>>
    /\ project_data = EmptyDict
    /\ deal_total = NoTotal

\* one iteration of `for i, req in enumerate(requirements)` that appends
MatchIteration ==
    /\ pc = "loop"
    /\ i < Len(requirements)
    /\ \E raw \in SearchOutputs(Len(catalog)) :
          /\ ~SearchRaises(catalog, raw)
          /\ LET out == MatchOne(catalog, i, requirements[i + 1],
                                 find_similar_products(catalog, raw))
             IN  /\ searched' = Append(searched, raw)
                 /\ matched_products' = IF out.list = "matched_products"
                                        THEN Append(matched_products, out.entry)
                                        ELSE matched_products
                 /\ gaps' = IF out.list = "gaps" THEN Append(gaps, out.entry) ELSE gaps
    /\ i' = i + 1
    /\ UNCHANGED <<deal_total, rfp, workflow_steps, project_data, source, customer_tier, catalog, requirements, pc, result>>

\* an iteration in which find_similar_products raises IndexError
MatchRaises ==
    /\ pc = "loop"
    /\ i < Len(requirements)
    /\ \E raw \in SearchOutputs(Len(catalog)) :
          /\ SearchRaises(catalog, raw)
          /\ searched' = Append(searched, raw)
    /\ pc' = "raised"
    /\ UNCHANGED <<deal_total, rfp, workflow_steps, project_data, source, customer_tier, catalog, requirements, i, matched_products, gaps, result>>

\* lines 95-112: the aggregate and the return
MatchReturn ==
    /\ pc = "loop"
    /\ i = Len(requirements)
    /\ LET rfp_text_combined == JoinSpace(requirements)
       IN  result' = << [match_rate |-> MatchRate(Len(matched_products), Len(requirements),
                                                  rfp_text_combined),
                         total_requirements |-> Len(requirements),
                         matched_requirements |-> Len(matched_products),
                         recommended_bundle |-> _suggest_bundle(catalog, matched_products,
                                                                rfp_text_combined)] >>
    /\ pc' = "done"
    /\ UNCHANGED <<deal_total, rfp, workflow_steps, project_data, source, customer_tier, catalog, requirements, i, searched, matched_products, gaps>>

Next == MatchIteration \/ MatchRaises \/ MatchReturn

Spec == Init /\ [][Next]_vars

(***************************************************************************)
(* Properties of match_requirements                                        *)
(***************************************************************************)

\* the label a MatchResult uses for the requirement at position p (1 <= p <= 9)
PositionLabel(p) == <<"R", "E", "Q", "-", "0", "0">> \o <<Digit(p)>>

\* similar_products as seen by the iteration for position p
SimilarAt(p) == find_similar_products(catalog, searched[p])

\* the entries of matched_products / gaps recorded for position p
MatchesAt(p) ==
    { k \in 1..Len(matched_products) : matched_products[k].requirement_id = PositionLabel(p) }

GapsAt(p) == { k \in 1..Len(gaps) : gaps[k].requirement_id = PositionLabel(p) }

\* no catalog entry passes any of the fallback's checks for the requirement at p
NoFallbackHit(p) ==
    \A k \in 1..Len(catalog) : ~KeywordHit(catalog[k], lower(requirements[p]))

\* C1: when match_requirements returns, matched_products and gaps together
\* hold exactly one entry per requirement position 1..N, so their lengths
\* add up to N.
C1_Partition ==
    pc = "done" =>
        /\ Len(matched_products) + Len(gaps) = Len(requirements)
        /\ \A p \in 1..Len(requirements) :
              Cardinality(MatchesAt(p)) + Cardinality(GapsAt(p)) = 1

C1_Witness ==
    /\ pc = "done"
    /\ Len(requirements) = 3
    /\ Len(matched_products) = 2
    /\ Len(gaps) = 1

\* C2: the returned match_rate lies in [0, 1], boost included.
C2_RateInUnitInterval ==
    pc = "done" => result[1].match_rate >= 0 /\ result[1].match_rate <= 1000000

C2_Witness ==
    /\ pc = "done"
    /\ IsTargetClient(JoinSpace(requirements))
    /\ Len(requirements) = 3
    /\ Len(matched_products) = 3
    /\ result[1].match_rate = 1000000

\* C3 as stated: the returned match_rate is exactly matched/total, or exactly
\* min(1, 1.25 * matched/total) when a target client is named.
C3_ExactRate ==
    (pc = "done" /\ Len(requirements) > 0) =>
        LET m == Len(matched_products)
            n == Len(requirements)
            r == result[1].match_rate
        IN  IF IsTargetClient(JoinSpace(requirements))
            THEN r * 4 * n = 1000000 * (IF 5 * m >= 4 * n THEN 4 * n ELSE 5 * m)
            ELSE r * n = 1000000 * m

\* C3 amended: the returned match_rate is a whole number of thousandths within
\* half a thousandth of matched/total, or of min(1, 1.25 * matched/total) when
\* a target client is named.
C3_RoundedRate ==
    (pc = "done" /\ Len(requirements) > 0) =>
        LET m == Len(matched_products)
            n == Len(requirements)
            r == result[1].match_rate
            exact4n == IF IsTargetClient(JoinSpace(requirements))
                       THEN 1000000 * (IF 5 * m >= 4 * n THEN 4 * n ELSE 5 * m)
                       ELSE 1000000 * 4 * m
        IN  /\ r % 1000 = 0
            /\ r * 4 * n - exact4n <= 500 * 4 * n
            /\ exact4n - r * 4 * n <= 500 * 4 * n

C3_Witness ==
    /\ pc = "done"
    /\ \E p \in 1..Len(requirements) : requirements[p] = <<"H", "e", "r", "o", " ", "p", "l", "a", "n", "t", " ", "v", "p", "n">>
    /\ Len(requirements) = 3
    /\ Len(matched_products) = 1
    /\ result[1].match_rate = 417000

\* C4: a requirement whose query returned a candidate is matched to the top
\* candidate exactly when that candidate scores above 0.5, and the match is
\* High exactly when the score is above 0.7, Medium otherwise.
C4_Thresholds ==
    \A p \in 1..i :
        Len(SimilarAt(p)) > 0 =>
            LET top == SimilarAt(p)[1]
                semantic == { k \in MatchesAt(p) :
                                /\ matched_products[k].notes = "Addresses"
                                /\ matched_products[k].matched_sku = top.sku }
            IN  /\ (semantic # {}) <=> Exceeds(top.similarity_score, 500)
                /\ \A k \in semantic :
                      /\ matched_products[k].confidence = "High"
                            <=> Exceeds(top.similarity_score, 700)
                      /\ matched_products[k].confidence \in {"High", "Medium"}

C4_Witness ==
    /\ \E p \in 1..i :
          /\ Len(SimilarAt(p)) > 0
          /\ SimilarAt(p)[1].similarity_score = similarity(1000)
          /\ \E k \in MatchesAt(p) :
                matched_products[k].notes = "Keyword match for enterprise requirement"
    /\ \E p \in 1..i, k \in 1..Len(matched_products) :
          /\ k \in MatchesAt(p)
          /\ matched_products[k].notes = "Addresses"
          /\ matched_products[k].confidence = "Medium"
    /\ \E p \in 1..i, k \in 1..Len(matched_products) :
          /\ k \in MatchesAt(p)
          /\ matched_products[k].confidence = "High"

\* C5: a match made by the keyword fallback is Medium and scores 0.65 when
\* the query returned no candidate, 0.6 when the top candidate scored <= 0.5.
C5_FallbackScores ==
    \A p \in 1..i : \A k \in MatchesAt(p) :
        IF Len(SimilarAt(p)) = 0
        THEN /\ matched_products[k].similarity_score = 650000
             /\ matched_products[k].confidence = "Medium"
        ELSE ~Exceeds(SimilarAt(p)[1].similarity_score, 500) =>
                /\ matched_products[k].similarity_score = 600000
                /\ matched_products[k].confidence = "Medium"

C5_Witness ==
    \E p \in 1..i :
        /\ Len(SimilarAt(p)) > 0
        /\ ~Exceeds(SimilarAt(p)[1].similarity_score, 500)
        /\ \E k \in MatchesAt(p) :
              /\ matched_products[k].notes = "Keyword match for enterprise requirement"
              /\ matched_products[k].similarity_score = 600000

\* C6: a gap has the partial-match reason exactly when the query returned a
\* candidate, and the specialized-requirement reason exactly when it did not.
C6_GapReasons ==
    \A p \in 1..i : \A k \in GapsAt(p) :
        /\ gaps[k].gap_reason = PartialMatchReason
              <=> (Len(SimilarAt(p)) > 0 /\ ~Exceeds(SimilarAt(p)[1].similarity_score, 500))
        /\ gaps[k].gap_reason = SpecializedReason <=> Len(SimilarAt(p)) = 0

C6_Witness ==
    \E p \in 1..i :
        /\ Len(SimilarAt(p)) > 0
        /\ ~Exceeds(SimilarAt(p)[1].similarity_score, 500)
        /\ \E k \in GapsAt(p) : gaps[k].gap_reason = PartialMatchReason

\* C7 as stated: a requirement whose top candidate scores <= 0.5 and that the
\* fallback cannot place yields one gap with the specialized-requirement
\* reason and no match.
C7_SpecializedWording ==
    \A p \in 1..i :
        (/\ Len(SimilarAt(p)) > 0
         /\ ~Exceeds(SimilarAt(p)[1].similarity_score, 500)
         /\ NoFallbackHit(p))
        => /\ MatchesAt(p) = {}
           /\ Cardinality(GapsAt(p)) = 1
           /\ \A k \in GapsAt(p) : gaps[k].gap_reason = SpecializedReason

\* C7 amended: such a requirement yields one gap with the partial-match
\* reason and no match.
C7_PartialWording ==
    \A p \in 1..i :
        (/\ Len(SimilarAt(p)) > 0
         /\ ~Exceeds(SimilarAt(p)[1].similarity_score, 500)
         /\ NoFallbackHit(p))
        => /\ MatchesAt(p) = {}
           /\ Cardinality(GapsAt(p)) = 1
           /\ \A k \in GapsAt(p) : gaps[k].gap_reason = PartialMatchReason

C7_Witness ==
    \E p \in 1..i :
        /\ Len(SimilarAt(p)) > 0
        /\ ~Exceeds(SimilarAt(p)[1].similarity_score, 500)
        /\ NoFallbackHit(p)
        /\ GapsAt(p) # {}

\* C8: every gap carries the best score seen for its requirement: the top
\* candidate's score (to three decimals) when there was a candidate, 0 when
\* there was none.
C8_GapCarriesScore ==
    \A p \in 1..i : \A k \in GapsAt(p) :
        /\ "match_score" \in DOMAIN gaps[k]
        /\ gaps[k].match_score =
              IF Len(SimilarAt(p)) > 0
              THEN Round3(SimilarAt(p)[1].similarity_score)
              ELSE 0

C8_Witness ==
    \E p \in 1..i :
        /\ Len(SimilarAt(p)) > 0
        /\ SimilarAt(p)[1].similarity_score = similarity(1000)
        /\ \E k \in GapsAt(p) :
              /\ gaps[k].best_match = SimilarAt(p)[1].name
              /\ gaps[k].match_score = 500000

(***************************************************************************)
(* _keyword_based_match on its own: one call with the lowercased text of   *)
(* one requirement, as match_requirements makes it                         *)
(***************************************************************************)

MaxCatalog == 2

CatalogPool == { ItemA, ItemB, ItemC, ItemD }

\* catalogs of up to MaxCatalog distinct entries, in every load order
PoolCatalogs ==
    { c \in UNION { [1..n -> CatalogPool] : n \in 0..MaxCatalog } :
        \A j, k \in 1..Len(c) : j # k => c[j] # c[k] }

FallbackTexts ==
    { <<"H", "e", "r", "o", " ", "p", "l", "a", "n", "t", " ", "v", "p", "n">>, <<"B", "a", "n", "k", " ", "E", "R", "P">>, <<"c", "l", "o", "u", "d", " ", "s", "t", "o", "r", "e">>, <<"a", "u", "d", "i", "t">>, <<"f", "a", "c", "t", "o", "r", "y", " ", "m", "e", "s">>, <<"S", "A", "P", " ", "r", "o", "l", "l", "o", "u", "t">> }

InitFallback ==
    /\ catalog \in PoolCatalogs
    /\ source = CatalogFile(catalog)
    /\ customer_tier = <<"e", "n", "t", "e", "r", "p", "r", "i", "s", "e">>
    /\ requirements \in { <<text>> : text \in FallbackTexts }
    /\ pc = "keyword_call"
    /\ i = 0
    /\ searched = <<>>
    /\ matched_products = <<>>
    /\ gaps = <<>>
    /\ result = <<>>
    /\ rfp = <<>>
    /\ workflow_steps = <<>>
    /\ project_data = EmptyDict
    /\ deal_total = NoTotal

\* keyword_match = self._keyword_based_match(req_text)
KeywordCall ==
    /\ pc = "keyword_call"
    /\ result' = _keyword_based_match(catalog, lower(requirements[1]))
    /\ pc' = "keyword_done"
    /\ UNCHANGED <<deal_total, rfp, workflow_steps, project_data, source, customer_tier, catalog, requirements, i, searched, matched_products, gaps>>

NextFallback == KeywordCall

SpecFallback == InitFallback /\ [][NextFallback]_vars

\* the catalog positions whose entry passes at least one of the four checks
PassingPositions ==
    { k \in 1..Len(catalog) : KeywordHit(catalog[k], lower(requirements[1])) }

\* C9: the fallback returns the catalog entry at the lowest position that
\* passes any of the checks (a)-(d), whichever check that is, and returns
\* nothing exactly when no entry passes any check.
C9_FirstEntryWins ==
    pc = "keyword_done" =>
        IF PassingPositions = {}
        THEN result = <<>>
        ELSE \E k \in PassingPositions :
                /\ \A j \in PassingPositions : k <= j
                /\ result = <<catalog[k]>>

C9_Witness ==
    /\ pc = "keyword_done"
    /\ Len(catalog) = 2
    /\ result = <<catalog[1]>>
    /\ ~DirectKeywordCheck(catalog[1], lower(requirements[1]))
    /\ DirectKeywordCheck(catalog[2], lower(requirements[1]))

(***************************************************************************)
(* _suggest_bundle on its own: the call match_requirements makes on return *)
(***************************************************************************)

MaxBundleReqs == 3

BundleCatalogs == { <<ItemA, ItemB>>, <<ItemC>> }

BundleTexts == { <<"H", "e", "r", "o", " ", "p", "l", "a", "n", "t", " ", "v", "p", "n">>, <<"B", "a", "n", "k", " ", "E", "R", "P">>, <<"c", "l", "o", "u", "d", " ", "s", "t", "o", "r", "e">>, <<"a", "u", "d", "i", "t">> }

\* the matched list left by a loop in which requirement p was matched to the
\* catalog entry at position choice[p], or ended as a gap when choice[p] = 0
RECURSIVE MatchedBy(_, _, _)
MatchedBy(products, choice, p) ==
    IF p > Len(choice) THEN <<>>
    ELSE IF choice[p] = 0 THEN MatchedBy(products, choice, p + 1)
    ELSE <<SemanticEntry(p - 1, Scored(products[choice[p]], 0))>>
         \o MatchedBy(products, choice, p + 1)

InitBundle ==
    /\ catalog \in BundleCatalogs
    /\ source = CatalogFile(catalog)
    /\ customer_tier = <<"e", "n", "t", "e", "r", "p", "r", "i", "s", "e">>
    /\ requirements \in UNION { [1..n -> BundleTexts] : n \in 0..MaxBundleReqs }
    /\ \E choice \in [1..Len(requirements) -> 0..Len(catalog)] :
          matched_products = MatchedBy(catalog, choice, 1)
    /\ pc = "bundle_call"
    /\ i = Len(requirements)
    /\ searched = <<>>
    /\ gaps = <<>>
    /\ result = <<>>
    /\ rfp = <<>>
    /\ workflow_steps = <<>>
    /\ project_data = EmptyDict
    /\ deal_total = NoTotal

\* self._suggest_bundle(matched_products, rfp_text_combined)
BundleCall ==
    /\ pc = "bundle_call"
    /\ result' = _suggest_bundle(catalog, matched_products, JoinSpace(requirements))
    /\ pc' = "bundle_done"
    /\ UNCHANGED <<deal_total, rfp, workflow_steps, project_data, source, customer_tier, catalog, requirements, i, searched, matched_products, gaps>>

NextBundle == BundleCall

SpecBundle == InitBundle /\ [][NextBundle]_vars

\* the combined requirement text names a keyword of the k-th industry family
MentionsFamily(k) ==
    ContainsAny(lower(JoinSpace(requirements)), industry_keywords[k].keywords)

\* the catalog categories of the matched products, one per match
MatchedCategories ==
    [k \in 1..Len(matched_products) |->
        (CHOOSE item \in { catalog[j] : j \in 1..Len(catalog) } :
            item.sku = matched_products[k].matched_sku).category]

\* how many matched products have the category
Frequency(category) ==
    Cardinality({ k \in 1..Len(matched_products) : MatchedCategories[k] = category })

\* C10: with at least one match the bundle is named after the first of
\* manufacturing, financial, retail that has a keyword in the combined text;
\* with no industry keyword it is named after a category that no other
\* category of the matched products outnumbers.
C10_BundleChoice ==
    (pc = "bundle_done" /\ Len(matched_products) > 0) =>
        IF MentionsFamily(1) THEN result = <<"M", "a", "n", "u", "f", "a", "c", "t", "u", "r", "i", "n", "g", " ", "E", "n", "t", "e", "r", "p", "r", "i", "s", "e", " ", "C", "o", "m", "p", "l", "e", "t", "e", " ", "B", "u", "n", "d", "l", "e">>
        ELSE IF MentionsFamily(2) THEN result = <<"F", "i", "n", "a", "n", "c", "i", "a", "l", " ", "E", "n", "t", "e", "r", "p", "r", "i", "s", "e", " ", "C", "o", "m", "p", "l", "e", "t", "e", " ", "B", "u", "n", "d", "l", "e">>
        ELSE IF MentionsFamily(3) THEN result = <<"R", "e", "t", "a", "i", "l", " ", "E", "n", "t", "e", "r", "p", "r", "i", "s", "e", " ", "C", "o", "m", "p", "l", "e", "t", "e", " ", "B", "u", "n", "d", "l", "e">>
        ELSE \E k \in 1..Len(matched_products) :
                /\ result = MatchedCategories[k] \o <<" ", "E", "n", "t", "e", "r", "p", "r", "i", "s", "e", " ", "B", "u", "n", "d", "l", "e">>
                /\ \A j \in 1..Len(matched_products) :
                      Frequency(MatchedCategories[j]) <= Frequency(MatchedCategories[k])

C10_Witness ==
    /\ pc = "bundle_done"
    /\ Len(matched_products) = 3
    /\ ~MentionsFamily(1) /\ ~MentionsFamily(2) /\ ~MentionsFamily(3)
    /\ MatchedCategories[1] # MatchedCategories[2]
    /\ MatchedCategories[2] = MatchedCategories[3]
    /\ result = MatchedCategories[2] \o <<" ", "E", "n", "t", "e", "r", "p", "r", "i", "s", "e", " ", "B", "u", "n", "d", "l", "e">>

C10_WitnessPriority ==
    /\ pc = "bundle_done"
    /\ Len(matched_products) > 0
    /\ ~MentionsFamily(1) /\ MentionsFamily(2) /\ MentionsFamily(3)
    /\ result = <<"F", "i", "n", "a", "n", "c", "i", "a", "l", " ", "E", "n", "t", "e", "r", "p", "r", "i", "s", "e", " ", "C", "o", "m", "p", "l", "e", "t", "e", " ", "B", "u", "n", "d", "l", "e">>

\* C11: with no match at all the bundle is a default chosen by the same
\* priority over the same three keyword families as in the matched case, and
\* the generic label is returned only when no keyword of any family occurs.
C11_DefaultByFamily ==
    (pc = "bundle_done" /\ Len(matched_products) = 0) =>
        /\ MentionsFamily(1) => result = <<"M", "a", "n", "u", "f", "a", "c", "t", "u", "r", "i", "n", "g", " ", "D", "i", "g", "i", "t", "a", "l", " ", "T", "r", "a", "n", "s", "f", "o", "r", "m", "a", "t", "i", "o", "n", " ", "B", "u", "n", "d", "l", "e">>
        /\ (~MentionsFamily(1) /\ MentionsFamily(2))
              => result = <<"F", "i", "n", "a", "n", "c", "i", "a", "l", " ", "S", "e", "r", "v", "i", "c", "e", "s", " ", "E", "n", "t", "e", "r", "p", "r", "i", "s", "e", " ", "B", "u", "n", "d", "l", "e">>
        /\ result = <<"E", "n", "t", "e", "r", "p", "r", "i", "s", "e", " ", "B", "u", "s", "i", "n", "e", "s", "s", " ", "S", "o", "l", "u", "t", "i", "o", "n", " ", "B", "u", "n", "d", "l", "e">>
              <=> (~MentionsFamily(1) /\ ~MentionsFamily(2) /\ ~MentionsFamily(3))

(***************************************************************************)
(* Python floats (IEEE-754 binary64, round to nearest, ties to even) as    *)
(* the pricing engine uses them.  A float is [mant |-> m, exp |-> e] and   *)
(* stands for m * 2^e: m is a whole number of exactly 53 bits, or 0 with   *)
(* exp 0, written as its base-16384 digits, lowest first, without leading  *)
(* zeros.  Every float of the engine is >= 0.                              *)
(***************************************************************************)

\* the base of the digits of a mantissa: 2^14, so that a sum of four digit
\* products stays below 2^31
LimbBase == 16384

RECURSIVE Pow2(_)
Pow2(n) == IF n = 0 THEN 1 ELSE 2 * Pow2(n - 1)

\* the digit sequence without leading zeros
RECURSIVE Trim(_)
Trim(a) == IF Len(a) > 0 /\ a[Len(a)] = 0 THEN Trim(SubSeq(a, 1, Len(a) - 1)) ELSE a

\* the digits of the whole number whose k-th digit position holds a[k] (any
\* integer) plus the carry c
RECURSIVE Carry(_, _)
Carry(a, c) ==
    IF Len(a) = 0
    THEN (IF c = 0 THEN <<>> ELSE <<c % LimbBase>> \o Carry(<<>>, c \div LimbBase))
    ELSE <<(Head(a) + c) % LimbBase>> \o Carry(Tail(a), (Head(a) + c) \div LimbBase)

\* the whole number a digit sequence stands for
RECURSIVE Value(_)
Value(a) == IF Len(a) = 0 THEN 0 ELSE Head(a) + LimbBase * Value(Tail(a))

\* a + sign * b on digit sequences (a >= b when sign is -1)
BigAdd(a, b, sign) ==
    LET n == IF Len(a) > Len(b) THEN Len(a) ELSE Len(b)
    IN  Trim(Carry([k \in 1..n |-> (IF k <= Len(a) THEN a[k] ELSE 0)
                                     + sign * (IF k <= Len(b) THEN b[k] ELSE 0)], 0))

\* the sum of a[j] * b[k + 1 - j] over j = 1..upto: one column of a * b
RECURSIVE Column(_, _, _, _)
Column(a, b, k, upto) ==
    IF upto = 0 THEN 0
    ELSE (IF k + 1 - upto >= 1 /\ k + 1 - upto <= Len(b) THEN a[upto] * b[k + 1 - upto] ELSE 0)
         + Column(a, b, k, upto - 1)

\* a * b on digit sequences
BigMul(a, b) ==
    Trim(Carry([k \in 1..(Len(a) + Len(b)) |-> Column(a, b, k, Len(a))], 0))

\* quotient and remainder of a digit sequence by a whole number s >= 1
RECURSIVE DivSmall(_, _)
DivSmall(a, s) ==
    IF Len(a) = 0 THEN [q |-> <<>>, r |-> 0]
    ELSE LET high == DivSmall(Tail(a), s)
             cur == high.r * LimbBase + Head(a)
         IN  [q |-> <<cur \div s>> \o high.q, r |-> cur % s]

\* a * 2^k and floor(a / 2^k) on digit sequences
ShiftLeft(a, k) ==
    IF Len(a) = 0 THEN <<>>
    ELSE [j \in 1..(k \div 14) |-> 0] \o BigMul(a, <<Pow2(k % 14)>>)

ShiftRight(a, k) ==
    IF k \div 14 >= Len(a) THEN <<>>
    ELSE Trim(DivSmall(SubSeq(a, (k \div 14) + 1, Len(a)), Pow2(k % 14)).q)

\* the number of bits of a digit sequence
BitLength(a) ==
    IF Len(a) = 0 THEN 0 ELSE 14 * (Len(a) - 1) + Log2Floor(a[Len(a)], 1) + 1

\* n / 2^s to the nearest whole number, ties to even; `above` says that the
\* number meant lies above n by less than 1
RoundShift(n, s, above) ==
    IF s <= 0 THEN ShiftLeft(n, 0 - s)
    ELSE LET q == ShiftRight(n, s)
             upper == ShiftRight(n, s - 1)
             half == Len(upper) > 0 /\ upper[1] % 2 = 1
             low == above \/ ShiftLeft(upper, s - 1) # n
             odd == Len(q) > 0 /\ q[1] % 2 = 1
         IN  IF half /\ (low \/ odd) THEN BigAdd(q, <<1>>, 1) ELSE q

\* the float nearest to n * 2^e (to a number above it by less than 2^e when
\* `above` is set, n then having more than 54 bits)
Nearest(n, e, above) ==
    IF Len(n) = 0 THEN [mant |-> <<>>, exp |-> 0]
    ELSE LET s == BitLength(n) - 53
             m == RoundShift(n, s, above)
         IN  IF BitLength(m) = 54
             THEN [mant |-> ShiftRight(m, 1), exp |-> e + s + 1]
             ELSE [mant |-> m, exp |-> e + s]

\* float(n) for an int n >= 0
FloatOf(n) == Nearest(Trim(Carry(<<n>>, 0)), 0, FALSE)

\* x * y
FloatMul(x, y) == Nearest(BigMul(x.mant, y.mant), x.exp + y.exp, FALSE)

\* x + y (sign 1) and x - y (sign -1, x >= y)
FloatAdd(x, y, sign) ==
    IF Len(y.mant) = 0 THEN x
    ELSE IF Len(x.mant) = 0 THEN y
    ELSE LET e == IF x.exp < y.exp THEN x.exp ELSE y.exp
         IN  Nearest(BigAdd(ShiftLeft(x.mant, x.exp - e), ShiftLeft(y.mant, y.exp - e), sign),
                     e, FALSE)

\* x / s for an int s with 1 <= s < 2^17
FloatDiv(x, s) ==
    LET d == DivSmall(ShiftLeft(x.mant, 20), s)
    IN  Nearest(Trim(d.q), x.exp - 20, d.r # 0)

\* int(x)
IntOf(x) ==
    IF x.exp < 0 THEN Value(ShiftRight(x.mant, 0 - x.exp))
    ELSE Value(ShiftLeft(x.mant, x.exp))

\* round(x, 2), in paise (hundredths of a rupee)
Round2(x) == Value(RoundShift(BigMul(x.mant, <<100>>), 0 - x.exp, FALSE))

\* 0 when x is a whole number, 1 when it has a fraction
Fraction(x) == IF FloatOf(IntOf(x)) = x THEN 0 ELSE 1

(***************************************************************************)
(* Pricing Engine: PricingAgent.calculate_pricing                          *)
(* The engine computes in floats and rounds only what it reports.  A       *)
(* field the code passes through round(x, 2) is held in whole paise        *)
(* (hundredths of a rupee); the two unit prices it reports unrounded, of   *)
(* the maintenance and the training line, are held as floats.  base_price  *)
(* is a whole number of rupees.                                            *)
(***************************************************************************)

\* self.rules['volume_discount'], in the order written
volume_discount ==
    << [min_units |-> 5, discount |-> 10],
       [min_units |-> 20, discount |-> 20],
       [min_units |-> 50, discount |-> 30] >>

\* self.rules['services_rate'], in rupees
services_rate == 25000

\* self.rules['maintenance_rate']: the float literal 0.18
maintenance_rate == FloatDiv(FloatOf(18), 100)

\* self.rules['implementation_multiplier']: the float literal 0.25
implementation_multiplier == FloatDiv(FloatOf(25), 100)

\* variant: the enterprise and midmarket rates exchanged
CustomerDiscount_swapped(tier) ==
    CASE tier = <<"e", "n", "t", "e", "r", "p", "r", "i", "s", "e">> -> 10
      [] tier = <<"m", "i", "d", "m", "a", "r", "k", "e", "t">> -> 15
      [] tier = <<"s", "m", "e">> -> 5
      [] OTHER -> 0

\* self.rules['customer_tier_discount'].get(customer_tier, 0)
CustomerDiscount(tier) ==
    CASE tier = <<"e", "n", "t", "e", "r", "p", "r", "i", "s", "e">> -> 15
      [] tier = <<"m", "i", "d", "m", "a", "r", "k", "e", "t">> -> 10
      [] tier = <<"s", "m", "e">> -> 5
      [] OTHER -> 0

\* the sequence without its k-th element
Without(s, k) == SubSeq(s, 1, k - 1) \o SubSeq(s, k + 1, Len(s))

\* variant: sorted(..., key=min_units) without reverse=True
RECURSIVE SortedRules_ascending(_)
SortedRules_ascending(rules) ==
    IF Len(rules) = 0 THEN <<>>
    ELSE LET k == CHOOSE k \in 1..Len(rules) :
                    /\ \A j \in 1..Len(rules) : rules[k].min_units <= rules[j].min_units
                    /\ \A j \in 1..(k - 1) : rules[k].min_units < rules[j].min_units
         IN  <<rules[k]>> \o SortedRules_ascending(Without(rules, k))

\* sorted(rules, key=lambda x: x['min_units'], reverse=True)
RECURSIVE SortedRules(_)
SortedRules(rules) ==
    IF Len(rules) = 0 THEN <<>>
    ELSE LET k == CHOOSE k \in 1..Len(rules) :
                    /\ \A j \in 1..Len(rules) : rules[j].min_units <= rules[k].min_units
                    /\ \A j \in 1..(k - 1) : rules[j].min_units < rules[k].min_units
         IN  <<rules[k]>> \o SortedRules(Without(rules, k))

\* for rule in ...: if quantity >= rule['min_units']: return rule['discount']
RECURSIVE FirstRuleMet(_, _)
FirstRuleMet(rules, quantity) ==
    IF Len(rules) = 0 THEN 0
    ELSE IF quantity >= Head(rules).min_units THEN Head(rules).discount
    ELSE FirstRuleMet(Tail(rules), quantity)

_calculate_volume_discount(quantity) ==
    FirstRuleMet(SortedRules(volume_discount), quantity)

\* variant: the keys in the order of their last occurrence
QuantityKeys_lastoccurrence(matches) ==
    LET lasts == { k \in 1..Len(matches) :
                     \A j \in (k + 1)..Len(matches) :
                         matches[j].matched_sku # matches[k].matched_sku }
    IN  [m \in 1..Cardinality(lasts) |->
            matches[CHOOSE k \in lasts : Cardinality({ j \in lasts : j <= k }) = m].matched_sku]

\* the keys of product_quantities, in insertion order: a sku is inserted at
\* its first occurrence in the matched list
QuantityKeys(matches) ==
    LET firsts == { k \in 1..Len(matches) :
                      \A j \in 1..(k - 1) : matches[j].matched_sku # matches[k].matched_sku }
    IN  [m \in 1..Cardinality(firsts) |->
            matches[CHOOSE k \in firsts : Cardinality({ j \in firsts : j <= k }) = m].matched_sku]

\* product_quantities[sku]
QuantityOf(matches, sku) ==
    Cardinality({ k \in 1..Len(matches) : matches[k].matched_sku = sku })

\* lines 43-48: discounted_price = base_price * (1 - discount/100) and
\* extended_price = discounted_price * quantity, as floats
LinePrices(product, quantity) ==
    LET discount == _calculate_volume_discount(quantity)
        discounted_price ==
            FloatMul(FloatOf(product.base_price),
                     FloatAdd(FloatOf(1), FloatDiv(FloatOf(discount), 100), -1))
    IN  [discounted_price |-> discounted_price,
         extended_price |-> FloatMul(discounted_price, FloatOf(quantity))]

\* lines 50-58: the line item of one product
ProductLine(product, sku, quantity) ==
    [sku |-> sku,
     name |-> product.name,
     quantity |-> quantity,
     unit_price |-> Round2(LinePrices(product, quantity).discounted_price),
     discount_percent |-> _calculate_volume_discount(quantity),
     extended_price |-> Round2(LinePrices(product, quantity).extended_price),
     category |-> product.category]

\* lines 40-60: the product line items, skus without a product skipped
RECURSIVE ProductLines(_, _, _)
ProductLines(products, matches, keys) ==
    IF Len(keys) = 0 THEN <<>>
    ELSE LET product == _get_product_by_sku(products, Head(keys))
             rest == ProductLines(products, matches, Tail(keys))
         IN  IF Len(product) > 0
             THEN <<ProductLine(product[1], Head(keys), QuantityOf(matches, Head(keys)))>> \o rest
             ELSE rest

\* subtotal (lines 31 and 60) after the loop of lines 40-60 has handled the
\* first k keys: the unrounded extended prices added up in that order
RECURSIVE SumExtended(_, _, _, _)
SumExtended(products, matches, keys, k) ==
    IF k = 0 THEN FloatOf(0)
    ELSE LET before == SumExtended(products, matches, keys, k - 1)
             product == _get_product_by_sku(products, keys[k])
         IN  IF Len(product) > 0
             THEN FloatAdd(before,
                           LinePrices(product[1], QuantityOf(matches, keys[k])).extended_price,
                           1)
             ELSE before

\* variant: line 76 left out
AddImplementation_forgotten(subtotal, implementation_cost) == subtotal

\* line 76: subtotal += implementation_cost
AddImplementation(subtotal, implementation_cost) == FloatAdd(subtotal, implementation_cost, 1)

\* variant: the training hours at the full rate
TrainingCost_fullrate == FloatOf(50 * services_rate)

\* line 93: 50 * services_rate * 0.7
TrainingCost == FloatMul(FloatOf(50 * services_rate), FloatDiv(FloatOf(7), 10))

\* variant: the comparison total > threshold made inclusive
Over_inclusive(rupees, paise, threshold) == rupees >= threshold

\* total > threshold, for a total of rupees and paise and a threshold in rupees
Over(rupees, paise, threshold) ==
    \/ rupees > threshold
    \/ rupees = threshold /\ paise > 0

\* lines 111-117, for a total of rupees and paise
PaymentTermsAt(rupees, paise) ==
    IF Over(rupees, paise, 10000000) THEN "30% advance, 40% on delivery, 30% after UAT"
    ELSE IF Over(rupees, paise, 5000000) THEN "40% advance, 60% on delivery"
    ELSE "50% advance, 50% on delivery"

\* lines 111-117, for the unrounded total
PaymentTerms(total) == PaymentTermsAt(IntOf(total), Fraction(total))

\* total_price > the given number of rupees, for total_price in paise
OverRupees(total_price, rupees) == Over(total_price \div 100, total_price % 100, rupees)

\* lines 150-160, for a total of rupees and paise
PositioningAt(rupees, paise) ==
    IF Over(rupees, paise, 50000000)
    THEN "Premium enterprise solution with comprehensive support and customization"
    ELSE IF Over(rupees, paise, 10000000)
    THEN "Competitively priced for large enterprise deployments with strong ROI"
    ELSE IF Over(rupees, paise, 5000000)
    THEN "Value-optimized solution balancing features and cost for mid-market"
    ELSE "Cost-effective solution for SME digital transformation"

\* lines 150-160, called at line 132 with the unrounded total
_get_competitive_positioning(total_price) ==
    PositioningAt(IntOf(total_price), Fraction(total_price))

\* lines 62-76: the implementation line and the subtotal with it added;
\* running is [line_items, subtotal], the list and the unrounded subtotal
\* built so far
ImplementationServices(running) ==
    LET implementation_cost == FloatMul(running.subtotal, implementation_multiplier)
        implementation_hours == IntOf(FloatDiv(implementation_cost, services_rate))
    IN  [line_items |->
            Append(running.line_items,
                   [sku |-> <<"S", "E", "R", "V", "-", "I", "M", "P">>,
                    name |-> <<"I", "m", "p", "l", "e", "m", "e", "n", "t", "a", "t", "i", "o", "n", " ", "&", " ", "D", "e", "p", "l", "o", "y", "m", "e", "n", "t", " ", "S", "e", "r", "v", "i", "c", "e", "s">>,
                    quantity |-> implementation_hours,
                    unit_price |-> services_rate * 100,
                    discount_percent |-> 0,
                    extended_price |-> Round2(implementation_cost),
                    category |-> <<"S", "e", "r", "v", "i", "c", "e", "s">>]),
         subtotal |-> AddImplementation(running.subtotal, implementation_cost)]

\* lines 78-88: the maintenance line, taken on the subtotal that holds the
\* implementation cost, and the subtotal with it added
AnnualMaintenance(running) ==
    LET maintenance_cost == FloatMul(running.subtotal, maintenance_rate)
    IN  [line_items |->
            Append(running.line_items,
                   [sku |-> <<"M", "A", "I", "N", "T", "-", "A", "N", "N", "U", "A", "L">>,
                    name |-> <<"A", "n", "n", "u", "a", "l", " ", "M", "a", "i", "n", "t", "e", "n", "a", "n", "c", "e", " ", "&", " ", "S", "u", "p", "p", "o", "r", "t", " ", "(", "F", "i", "r", "s", "t", " ", "Y", "e", "a", "r", ")">>,
                    quantity |-> 1,
                    unit_price |-> maintenance_cost,
                    discount_percent |-> 0,
                    extended_price |-> Round2(maintenance_cost),
                    category |-> <<"S", "u", "p", "p", "o", "r", "t">>]),
         subtotal |-> FloatAdd(running.subtotal, maintenance_cost, 1)]

\* lines 90-102: the training line and the subtotal with it added
EnterpriseTraining(running) ==
    LET training_cost == TrainingCost
    IN  [line_items |->
            Append(running.line_items,
                   [sku |-> <<"T", "R", "A", "I", "N", "-", "E", "N", "T", "E", "R", "P", "R", "I", "S", "E">>,
                    name |-> <<"E", "n", "t", "e", "r", "p", "r", "i", "s", "e", " ", "U", "s", "e", "r", " ", "T", "r", "a", "i", "n", "i", "n", "g", " ", "(", "5", "0", " ", "h", "o", "u", "r", "s", ")">>,
                    quantity |-> 1,
                    unit_price |-> training_cost,
                    discount_percent |-> 0,
                    extended_price |-> Round2(training_cost),
                    category |-> <<"T", "r", "a", "i", "n", "i", "n", "g">>]),
         subtotal |-> FloatAdd(running.subtotal, training_cost, 1)]

\* lines 104-134: the tier discount on the final subtotal and the result
PricingResult(running, tier) ==
    LET subtotal == running.subtotal
        customer_discount == CustomerDiscount(tier)
        discount_amount == FloatMul(subtotal, FloatDiv(FloatOf(customer_discount), 100))
        total == FloatAdd(subtotal, discount_amount, -1)
    IN  [line_items |-> running.line_items,
         subtotal |-> Round2(subtotal),
         discounts |-> << [type |-> capitalize(tier) \o <<" ", "D", "i", "s", "c", "o", "u", "n", "t">>,
                           percent |-> customer_discount,
                           amount |-> Round2(discount_amount)] >>,
         total |-> Round2(total),
         payment_terms |-> PaymentTerms(total),
         validity |-> "90 days from proposal date",
         competitive_positioning |-> _get_competitive_positioning(total),
         customer_tier |-> tier]

\* lines 28-134
calculate_pricing(products, matches, tier) ==
    LET keys == QuantityKeys(matches)
    IN  PricingResult(
            EnterpriseTraining(AnnualMaintenance(ImplementationServices(
                [line_items |-> ProductLines(products, matches, keys),
                 subtotal |-> SumExtended(products, matches, keys, Len(keys))]))),
            tier)

(***************************************************************************)
(* calculate_pricing on its own: one call on a matched list                *)
(***************************************************************************)

MaxUnits == 51

PricingCatalogs == { <<ItemA>>, <<ItemA, ItemB>>, <<ItemE, ItemB>> }

CustomerTiers == { <<"e", "n", "t", "e", "r", "p", "r", "i", "s", "e">>, <<"m", "i", "d", "m", "a", "r", "k", "e", "t">>, <<"s", "m", "e">> }

\* the products the matcher that built the list had loaded, as the lists of
\* two it matched to; the pricing agent loads its catalog on its own and may
\* have fewer
MatchPool == { <<ItemA, ItemB>>, <<ItemE, ItemB>> }

\* a matched list of n requirements of which the first `lead` and the ones
\* after position n - other are matched to products[1], the rest to products[2]
UnitsMatched(products, n, lead, other) ==
    [p \in 1..n |->
        SemanticEntry(p - 1,
            Scored(IF p <= lead \/ p > lead + other THEN products[1] ELSE products[2], 0))]

InitPricing ==
    /\ catalog \in PricingCatalogs
    /\ source = CatalogFile(catalog)
    /\ customer_tier \in CustomerTiers
    /\ requirements = <<>>
    /\ \E n \in 0..MaxUnits, lead \in 0..1, other \in 0..1, pool \in MatchPool :
          /\ lead + other <= n
          /\ matched_products = UnitsMatched(pool, n, lead, other)
    /\ pc = "pricing_call"
    /\ i = 0
    /\ searched = <<>>
    /\ gaps = <<>>
    /\ result = <<>>
    /\ rfp = <<>>
    /\ workflow_steps = <<>>
    /\ project_data = EmptyDict
    /\ deal_total = NoTotal

\* pricing_agent.calculate_pricing(matched_products, customer_tier=customer_tier)
PricingCall ==
    /\ pc = "pricing_call"
    /\ result' = <<calculate_pricing(catalog, matched_products, customer_tier)>>
    /\ pc' = "pricing_done"
    /\ UNCHANGED <<deal_total, rfp, workflow_steps, project_data, source, customer_tier, catalog, requirements, i, searched, matched_products, gaps>>

NextPricing == PricingCall

SpecPricing == InitPricing /\ [][NextPricing]_vars

\* the product lines of a pricing result: all lines but the three service lines
ProductLineItems(pricing) == SubSeq(pricing.line_items, 1, Len(pricing.line_items) - 3)

\* C12: the volume discount of every product line is the step function of its
\* quantity (>= 50 -> 30, >= 20 -> 20, >= 5 -> 10, else 0), and no smaller
\* quantity from 1 up has a larger discount.
C12_VolumeSteps ==
    pc = "pricing_done" =>
        \A k \in 1..Len(ProductLineItems(result[1])) :
            LET line == ProductLineItems(result[1])[k]
            IN  /\ line.discount_percent =
                     (IF line.quantity >= 50 THEN 30
                      ELSE IF line.quantity >= 20 THEN 20
                      ELSE IF line.quantity >= 5 THEN 10
                      ELSE 0)
                /\ \A q \in 1..(line.quantity - 1) :
                     _calculate_volume_discount(q) <= _calculate_volume_discount(q + 1)

C12_Witness ==
    /\ pc = "pricing_done"
    /\ \E k \in 1..Len(ProductLineItems(result[1])) :
          /\ ProductLineItems(result[1])[k].quantity >= 50
          /\ ProductLineItems(result[1])[k].discount_percent = 30

\* the matched list with one more requirement matched to the given product
OneMoreMatch(matches, product) ==
    Append(matches, SemanticEntry(Len(matches), Scored(product, 0)))

\* C13: for a fixed catalog and tier, one more match for any sku never lowers
\* the total.
C13_TotalMonotone ==
    pc = "pricing_done" =>
        \A k \in 1..Len(catalog) :
            calculate_pricing(catalog, OneMoreMatch(matched_products, catalog[k]),
                              customer_tier).total >= result[1].total

\* the three service lines of a pricing result and its product subtotal
ImplementationLine(pricing) == pricing.line_items[Len(pricing.line_items) - 2]
MaintenanceLine(pricing) == pricing.line_items[Len(pricing.line_items) - 1]
TrainingLine(pricing) == pricing.line_items[Len(pricing.line_items)]
RECURSIVE SumReported(_)
SumReported(lines) ==
    IF Len(lines) = 0 THEN 0 ELSE Head(lines).extended_price + SumReported(Tail(lines))
ProductSubtotal(pricing) == SumReported(ProductLineItems(pricing))

\* the scenario of C14: one item of base price 100000 matched by 6
\* requirements, tier sme
SixUnitsSme ==
    /\ catalog = <<ItemA>>
    /\ Len(matched_products) = 6
    /\ \A k \in 1..6 : matched_products[k].matched_sku = ItemA.sku
    /\ customer_tier = <<"s", "m", "e">>

\* amount is within a paisa of the given percentage of base (all in paise)
WithinPaisa(amount, base, percent) ==
    LET d == amount - (base \div 100) * percent
    IN  /\ d >= -1
        /\ d <= percent + 1
        /\ 100 * d - (base % 100) * percent < 100
        /\ (base % 100) * percent - 100 * d < 100

\* the product subtotal as the engine holds it, unrounded
UnroundedSubtotal ==
    SumExtended(catalog, matched_products, QuantityKeys(matched_products),
                Len(QuantityKeys(matched_products)))

\* the running subtotal as the engine holds it when the tier discount is
\* taken: P + P x 0.25, plus 18% of that, plus the training cost of 875000
RunningSubtotal ==
    LET with_implementation ==
            FloatAdd(UnroundedSubtotal,
                     FloatMul(UnroundedSubtotal, FloatDiv(FloatOf(1), 4)), 1)
        with_maintenance ==
            FloatAdd(with_implementation,
                     FloatMul(with_implementation, FloatDiv(FloatOf(18), 100)), 1)
    IN  FloatAdd(with_maintenance, FloatOf(875000), 1)

C14_WitnessRounded ==
    /\ pc = "pricing_done"
    /\ Len(ProductLineItems(result[1])) = 1
    /\ result[1].line_items[1].quantity = 5
    /\ result[1].line_items[1].extended_price = 44999550
    /\ 4 * ImplementationLine(result[1]).extended_price # ProductSubtotal(result[1])

C15_WitnessRounded ==
    /\ pc = "pricing_done"
    /\ result[1].total # result[1].subtotal - result[1].discounts[1].amount

\* C16 as stated: with zero matched products the implementation, maintenance
\* and training lines are all zero-cost.
C16_AllServiceLinesZero ==
    (pc = "pricing_done" /\ Len(matched_products) = 0) =>
        /\ ImplementationLine(result[1]).extended_price = 0
        /\ MaintenanceLine(result[1]).extended_price = 0
        /\ TrainingLine(result[1]).extended_price = 0

\* C16: with zero matched products a result is still returned; it has the
\* three service lines only, implementation and maintenance are zero-cost, and
\* training keeps its fixed cost of 50 x 25000 x 0.7 = 875000, which is then
\* the subtotal.
C16_DerivedLinesZero ==
    (pc = "pricing_done" /\ Len(matched_products) = 0) =>
        /\ Len(result[1].line_items) = 3
        /\ ImplementationLine(result[1]).extended_price = 0
        /\ MaintenanceLine(result[1]).extended_price = 0
        /\ TrainingLine(result[1]).extended_price = 87500000
        /\ result[1].subtotal = 87500000
        /\ result[1].total = 87500000 - result[1].discounts[1].amount

C16_Witness ==
    /\ pc = "pricing_done"
    /\ Len(matched_products) = 0
    /\ Len(result) = 1
    /\ TrainingLine(result[1]).sku = <<"T", "R", "A", "I", "N", "-", "E", "N", "T", "E", "R", "P", "R", "I", "S", "E">>
    /\ MaintenanceLine(result[1]).extended_price = 0

\* C17: every line item of every pricing result, product and service lines
\* alike, has a quantity of at least 1.
C17_PositiveQuantity ==
    pc = "pricing_done" =>
        \A k \in 1..Len(result[1].line_items) : result[1].line_items[k].quantity >= 1

\* C18: every line item of every pricing result, product and service lines
\* alike, has an extended price equal to its unit price times its quantity
\* (for the last two lines, whose unit price is an unrounded float, as floats).
C18_ExtendedIsUnitTimesQuantity ==
    pc = "pricing_done" =>
        \A k \in 1..Len(result[1].line_items) :
            LET line == result[1].line_items[k]
            IN  IF k >= Len(result[1].line_items) - 1
                THEN FloatMul(line.unit_price, FloatOf(line.quantity))
                         = FloatDiv(FloatOf(line.extended_price), 100)
                ELSE line.extended_price = line.unit_price * line.quantity

(***************************************************************************)
(* Start-up: ProductMatcher.__init__ reads the catalog file twice, once in *)
(* LocalVectorSearch.__init__ (which also builds the index) and once for   *)
(* self.catalog; the file is taken not to change between the two reads, so *)
(* `catalog` stands for both copies once loaded.  The match loop follows.  *)
(***************************************************************************)

MaxStartupReqs == 2

\* a file that does not exist, and one that is not JSON
MissingFile == [kind |-> "missing", products |-> <<>>]
MalformedFile == [kind |-> "malformed", products |-> <<>>]

\* a second catalog entry that carries the sku of ItemA
ItemA_again ==
    [sku |-> ItemA.sku, name |-> ItemB.name, description |-> ItemB.description,
     category |-> ItemB.category, technical_keywords |-> ItemB.technical_keywords,
     base_price |-> ItemB.base_price]

StartupSources ==
    { MissingFile, MalformedFile,
      CatalogFile(<<>>), CatalogFile(<<ItemA>>), CatalogFile(<<ItemA, ItemB>>),
      CatalogFile(<<ItemA, ItemA_again>>) }

StartupReqLists == UNION { [1..n -> ReqTexts] : n \in 0..MaxStartupReqs }

InitStartup ==
    /\ source \in StartupSources
    /\ catalog = <<>>
    /\ customer_tier = <<"e", "n", "t", "e", "r", "p", "r", "i", "s", "e">>
    /\ requirements \in StartupReqLists
    /\ pc = "vector_search_init"
    /\ i = 0
    /\ searched = <<>>
    /\ matched_products = <<>>
    /\ gaps = <<>>
    /\ result = <<>>
    /\ rfp = <<>>
    /\ workflow_steps = <<>>
    /\ project_data = EmptyDict
    /\ deal_total = NoTotal

\* vector_search.py lines 15-16: open raises FileNotFoundError, json.load
\* raises JSONDecodeError
OpenRaises ==
    /\ pc = "vector_search_init"
    /\ source.kind # "json"
    /\ pc' = "raised"
    /\ UNCHANGED <<deal_total, rfp, workflow_steps, project_data, source, customer_tier, catalog, requirements, i, searched, matched_products, gaps, result>>

\* vector_search.py line 38: embeddings.shape[1] when encode([]) gave an
\* array of one dimension
BuildIndexRaises ==
    /\ pc = "vector_search_init"
    /\ source.kind = "json"
    /\ Len(source.products) = 0
    /\ pc' = "raised"
    /\ UNCHANGED <<deal_total, rfp, workflow_steps, project_data, source, customer_tier, catalog, requirements, i, searched, matched_products, gaps, result>>

\* vector_search.py lines 15-22: the products are read and indexed; nothing
\* looks at their skus
VectorSearchInit ==
    /\ pc = "vector_search_init"
    /\ source.kind = "json"
    /\ pc' = "catalog_load"
    /\ UNCHANGED <<deal_total, rfp, workflow_steps, project_data, source, customer_tier, catalog, requirements, i, searched, matched_products, gaps, result>>

\* matcher.py lines 9-10: self.catalog = json.load(f)
LoadCatalog ==
    /\ pc = "catalog_load"
    /\ catalog' = source.products
    /\ pc' = "loop"
    /\ UNCHANGED <<deal_total, rfp, workflow_steps, project_data, source, customer_tier, requirements, i, searched, matched_products, gaps, result>>

NextStartup ==
    \/ OpenRaises
    \/ BuildIndexRaises
    \/ VectorSearchInit
    \/ LoadCatalog
    \/ MatchIteration
    \/ MatchRaises
    \/ MatchReturn

SpecStartup == InitStartup /\ [][NextStartup]_vars

\* C19: a source with two items of the same sku fails to load, so that
\* whenever matching is served each sku identifies exactly one catalog item.
C19_DuplicateSkuRejected ==
    /\ (\E j, k \in 1..Len(source.products) :
           j # k /\ source.products[j].sku = source.products[k].sku)
          => pc \in {"vector_search_init", "raised"}
    /\ pc \in {"loop", "done"} =>
          \A j, k \in 1..Len(catalog) : catalog[j].sku = catalog[k].sku => j = k

\* C20: with an empty catalog neither building the index nor querying it
\* raises, and every requirement handled ends up as a gap of the keyword
\* fallback path.
C20_EmptyCatalogNeverRaises ==
    (source.kind = "json" /\ Len(source.products) = 0) =>
        /\ pc # "raised"
        /\ \A k \in 1..Len(searched) : find_similar_products(catalog, searched[k]) = <<>>
        /\ Len(matched_products) = 0

(***************************************************************************)
(* match_requirements called twice on the same requirement list, the       *)
(* second time on the same matcher or on one built anew from the same      *)
(* file.  What a call can leave behind is followed into the next one: the  *)
(* stored products (line 53 of vector_search.py is the only write to a     *)
(* product dictionary) and the two result lists (lines 29-30).  The        *)
(* embedding function and the index are deterministic: a query text gets   *)
(* from index.search what the same text got before.                        *)
(***************************************************************************)

\* variant: line 52 without .copy(), so that line 53 writes to the stored item
ScoreWriteTarget_stored == "stored"

\* line 52: product = self.products[idx].copy(); line 53 writes to `product`
ScoreWriteTarget == "copy"

\* self.products after the loop of lines 50-54 has handled raw[k..]
RECURSIVE ProductsAfterSearch(_, _, _)
ProductsAfterSearch(products, raw, k) ==
    IF k > Len(raw) THEN products
    ELSE LET pos == IF raw[k].idx >= 0 THEN raw[k].idx + 1
                    ELSE Len(products) + raw[k].idx + 1
             written == IF raw[k].idx < Len(products) /\ ScoreWriteTarget = "stored"
                        THEN [products EXCEPT ![pos] = Scored(products[pos], raw[k].distance)]
                        ELSE products
         IN  ProductsAfterSearch(written, raw, k + 1)

MaxRerunReqs == 2

RerunReqLists == UNION { [1..n -> ReqTexts] : n \in 0..MaxRerunReqs }

InitRerun ==
    /\ catalog \in Catalogs
    /\ source = CatalogFile(catalog)
    /\ customer_tier = <<"e", "n", "t", "e", "r", "p", "r", "i", "s", "e">>
    /\ requirements \in RerunReqLists
    /\ pc = "loop"
    /\ i = 0
    /\ searched = <<>>
    /\ matched_products = <<>>
    /\ gaps = <<>>
    /\ result = <<>>
    /\ rfp = <<>>
    /\ workflow_steps = <<>>
    /\ project_data = EmptyDict
    /\ deal_total = NoTotal

\* variant: the list of the previous call is carried into the next one
FreshList_kept(previous) == previous

\* lines 29-30: matched_products = [] and gaps = [] on every call
FreshList(previous) == <<>>

\* lines 105-112: the dictionary returned by match_requirements
MatchResult(products, reqs, matched, gap_list) ==
    [matched_products |-> matched,
     gaps |-> gap_list,
     match_rate |-> MatchRate(Len(matched), Len(reqs), JoinSpace(reqs)),
     total_requirements |-> Len(reqs),
     matched_requirements |-> Len(matched),
     recommended_bundle |-> _suggest_bundle(products, matched, JoinSpace(reqs))]

\* index.search for the query of requirement number p: any outcome for a text
\* not queried before, the earlier outcome for a text queried before (line 33
\* lowercases the text and line 36 derives the query from it)
Answers(products, reqs, raws, p) ==
    LET earlier == { j \in 1..Len(raws) : lower(reqs[j]) = lower(reqs[p]) }
    IN  IF earlier = {} THEN SearchOutputs(Len(products))
        ELSE { raws[j] : j \in earlier }

\* one iteration of the first call
FirstIteration ==
    /\ pc = "loop"
    /\ i < Len(requirements)
    /\ \E raw \in Answers(catalog, requirements, searched, i + 1) :
          /\ ~SearchRaises(catalog, raw)
          /\ LET out == MatchOne(catalog, i, requirements[i + 1],
                                 find_similar_products(catalog, raw))
             IN  /\ searched' = Append(searched, raw)
                 /\ matched_products' = IF out.list = "matched_products"
                                        THEN Append(matched_products, out.entry)
                                        ELSE matched_products
                 /\ gaps' = IF out.list = "gaps" THEN Append(gaps, out.entry) ELSE gaps
                 /\ catalog' = ProductsAfterSearch(catalog, raw, 1)
    /\ i' = i + 1
    /\ UNCHANGED <<deal_total, rfp, workflow_steps, project_data, source, customer_tier, requirements, pc, result>>

\* the second call, on the same matcher or on one built anew from the same
\* file; the result of the first call stays with the caller
CallAgain ==
    /\ pc = "done"
    /\ result' = <<MatchResult(catalog, requirements, matched_products, gaps)>>
    /\ \E rebuilt \in BOOLEAN : catalog' = IF rebuilt THEN source.products ELSE catalog
    /\ matched_products' = FreshList(matched_products)
    /\ gaps' = FreshList(gaps)
    /\ i' = 0
    /\ pc' = "loop_again"
    /\ UNCHANGED <<deal_total, rfp, workflow_steps, project_data, source, customer_tier, requirements, searched>>

\* one iteration of the second call
RerunIteration ==
    /\ pc = "loop_again"
    /\ i < Len(requirements)
    /\ \E raw \in Answers(catalog, requirements, searched, i + 1) :
          /\ ~SearchRaises(catalog, raw)
          /\ LET out == MatchOne(catalog, i, requirements[i + 1],
                                 find_similar_products(catalog, raw))
             IN  /\ matched_products' = IF out.list = "matched_products"
                                        THEN Append(matched_products, out.entry)
                                        ELSE matched_products
                 /\ gaps' = IF out.list = "gaps" THEN Append(gaps, out.entry) ELSE gaps
                 /\ catalog' = ProductsAfterSearch(catalog, raw, 1)
    /\ i' = i + 1
    /\ UNCHANGED <<deal_total, rfp, workflow_steps, project_data, source, customer_tier, requirements, pc, searched, result>>

\* the return of the second call
RerunReturn ==
    /\ pc = "loop_again"
    /\ i = Len(requirements)
    /\ result' = Append(result, MatchResult(catalog, requirements, matched_products, gaps))
    /\ pc' = "rerun_done"
    /\ UNCHANGED <<deal_total, rfp, workflow_steps, project_data, source, customer_tier, catalog, requirements, i, searched, matched_products, gaps>>

NextRerun ==
    \/ FirstIteration
    \/ MatchRaises
    \/ MatchReturn
    \/ CallAgain
    \/ RerunIteration
    \/ RerunReturn

SpecRerun == InitRerun /\ [][NextRerun]_vars

\* C21: with the same catalog, the same requirement list and a deterministic
\* index, the second call returns the same matched list, gaps, match rate and
\* bundle as the first.
C21_SameResultTwice ==
    pc = "rerun_done" =>
        /\ Len(result[2].matched_products) = Len(result[1].matched_products)
        /\ Len(result[2].gaps) = Len(result[1].gaps)
        /\ result[2].matched_products = result[1].matched_products
        /\ result[2].gaps = result[1].gaps
        /\ result[2].match_rate = result[1].match_rate
        /\ result[2].recommended_bundle = result[1].recommended_bundle

C21_Witness ==
    /\ pc = "rerun_done"
    /\ Len(result[1].matched_products) > 0
    /\ Len(result[1].gaps) > 0
    /\ result[2] = result[1]

(***************************************************************************)
(* A loaded matcher and pricing agent serving calls in any order.  The     *)
(* stored products are followed through every call: the only write to a    *)
(* product dictionary in the code is line 53 of vector_search.py.          *)
(***************************************************************************)

MaxCalls == 2

MaxCallReqs == 1

CallReqLists == UNION { [1..n -> ReqTexts] : n \in 0..MaxCallReqs }

\* self.products after find_similar_products has been called for each of
\* the first k requirements
RECURSIVE ProductsAfterSearches(_, _, _)
ProductsAfterSearches(products, raws, k) ==
    IF k = 0 THEN products
    ELSE ProductsAfterSearch(ProductsAfterSearches(products, raws, k - 1), raws[k], 1)

\* matched_products and gaps after the first k iterations of the loop
RECURSIVE MatchFold(_, _, _, _)
MatchFold(products, reqs, raws, k) ==
    IF k = 0 THEN [matched_products |-> FreshList(<<>>), gaps |-> FreshList(<<>>)]
    ELSE LET before == MatchFold(products, reqs, raws, k - 1)
             out == MatchOne(products, k - 1, reqs[k],
                             find_similar_products(products, raws[k]))
         IN  IF out.list = "matched_products"
             THEN [before EXCEPT !.matched_products = Append(@, out.entry)]
             ELSE [before EXCEPT !.gaps = Append(@, out.entry)]

\* the outcomes of index.search on which find_similar_products returns
ReturningOutputs(products) ==
    { raw \in SearchOutputs(Len(products)) : ~SearchRaises(products, raw) }

Serving == { "serving", "after_find", "after_raise", "after_match", "after_pricing" }

InitCalls ==
    /\ catalog \in Catalogs
    /\ source = CatalogFile(catalog)
    /\ customer_tier = <<"s", "m", "e">>
    /\ requirements \in CallReqLists
    /\ pc = "serving"
    /\ i = 0
    /\ searched = <<>>
    /\ matched_products = <<>>
    /\ gaps = <<>>
    /\ result = <<>>
    /\ rfp = <<>>
    /\ workflow_steps = <<>>
    /\ project_data = EmptyDict
    /\ deal_total = NoTotal

\* a call of find_similar_products that returns
FindCall ==
    /\ pc \in Serving
    /\ i < MaxCalls
    /\ \E raw \in ReturningOutputs(catalog) :
          /\ result' = find_similar_products(catalog, raw)
          /\ catalog' = ProductsAfterSearch(catalog, raw, 1)
    /\ i' = i + 1
    /\ pc' = "after_find"
    /\ UNCHANGED <<deal_total, rfp, workflow_steps, project_data, source, customer_tier, requirements, searched, matched_products, gaps>>

\* a call of find_similar_products that raises IndexError at line 52
FindRaises ==
    /\ pc \in Serving
    /\ i < MaxCalls
    /\ \E raw \in SearchOutputs(Len(catalog)) : SearchRaises(catalog, raw)
    /\ result' = <<>>
    /\ i' = i + 1
    /\ pc' = "after_raise"
    /\ UNCHANGED <<deal_total, rfp, workflow_steps, project_data, source, customer_tier, catalog, requirements, searched, matched_products, gaps>>

\* a call of match_requirements that returns
MatchCall ==
    /\ pc \in Serving
    /\ i < MaxCalls
    /\ \E raws \in [1..Len(requirements) -> ReturningOutputs(catalog)] :
          LET lists == MatchFold(catalog, requirements, raws, Len(requirements))
          IN  /\ matched_products' = lists.matched_products
              /\ gaps' = lists.gaps
              /\ result' = <<MatchResult(catalog, requirements,
                                         lists.matched_products, lists.gaps)>>
              /\ catalog' = ProductsAfterSearches(catalog, raws, Len(requirements))
    /\ i' = i + 1
    /\ pc' = "after_match"
    /\ UNCHANGED <<deal_total, rfp, workflow_steps, project_data, source, customer_tier, requirements, searched>>

\* a call of calculate_pricing on the matched list of the last match call
CallPricing ==
    /\ pc \in Serving
    /\ i < MaxCalls
    /\ result' = <<calculate_pricing(catalog, matched_products, customer_tier)>>
    /\ i' = i + 1
    /\ pc' = "after_pricing"
    /\ UNCHANGED <<deal_total, rfp, workflow_steps, project_data, source, customer_tier, catalog, requirements, searched, matched_products, gaps>>

NextCalls == FindCall \/ FindRaises \/ MatchCall \/ CallPricing

SpecCalls == InitCalls /\ [][NextCalls]_vars

\* C22: no sequence of find_similar_products, match_requirements and
\* calculate_pricing calls changes the loaded catalog: number, order and every
\* field of every item stay as loaded.
C22_CatalogUnchanged ==
    /\ Len(catalog) = Len(source.products)
    /\ \A k \in 1..Len(catalog) :
          /\ DOMAIN catalog[k] = DOMAIN source.products[k]
          /\ catalog[k] = source.products[k]

C22_Witness ==
    /\ pc = "after_find"
    /\ i = MaxCalls
    /\ Len(result) > 0
    /\ result[1].similarity_score.num > 0
    /\ Len(matched_products) > 0
    /\ catalog = source.products

\* C23: match_requirements called with an empty requirement list raises
\* nothing and returns zero matched products, zero gaps and a match rate of 0,
\* with an empty catalog as with a non-empty one.
C23_EmptyRequirementList ==
    Len(requirements) = 0 =>
        /\ pc # "raised"
        /\ pc = "done" =>
              /\ Len(matched_products) = 0
              /\ Len(gaps) = 0
              /\ result[1].match_rate = 0
              /\ result[1].total_requirements = 0
              /\ result[1].matched_requirements = 0

C23_Witness ==
    /\ pc = "done"
    /\ Len(requirements) = 0
    /\ Len(catalog) = 0
    /\ result[1].match_rate = 0

C23_WitnessCatalog ==
    /\ pc = "done"
    /\ Len(requirements) = 0
    /\ Len(catalog) > 0
    /\ result[1].match_rate = 0

(***************************************************************************)
(* Requirement extraction: FreeDocumentParser.extract_requirements and     *)
(* DocumentAnalyzer.analyze_rfp.  Texts are over ASCII: \d is one of the   *)
(* ten digits and white space is one of the ten characters below.          *)
(***************************************************************************)

\* what str.strip() removes, \s matches and str.split() splits on: the space,
\* tab, line feed, carriage return, form feed, and the control characters
\* 0x0B, 0x1C, 0x1D, 0x1E and 0x1F, written here as themselves
Whitespace == {" ", "\t", "\n", "\r", "\f", "", "", "", "", ""}

\* the j-th smallest element of a set of numbers
Nth(S, j) == CHOOSE k \in S : Cardinality({x \in S : x <= k}) = j

\* the entries of a list at the positions of keep, in order
Pick(s, keep) == [j \in 1..Cardinality(keep) |-> s[Nth(keep, j)]]

\* s.strip()
strip(s) ==
    LET inked == {k \in 1..Len(s) : s[k] \notin Whitespace}
    IN  IF inked = {} THEN <<>>
        ELSE SubSeq(s, Nth(inked, 1), Nth(inked, Cardinality(inked)))

\* s.startswith(prefix)
startswith(s, prefix) ==
    Len(s) >= Len(prefix) /\ SubSeq(s, 1, Len(prefix)) = prefix

\* s.split(ch): one part more than there are occurrences of ch
split(s, ch) ==
    LET seps == {k \in 1..Len(s) : s[k] = ch}
        n == Cardinality(seps)
        at(j) == IF j = 0 THEN 0 ELSE IF j = n + 1 THEN Len(s) + 1 ELSE Nth(seps, j)
    IN  [j \in 1..(n + 1) |-> SubSeq(s, at(j - 1) + 1, at(j) - 1)]

\* the dictionary appended for one requirement
Requirement(text, priority) ==
    [text |-> text, page |-> 1, priority |-> priority, type |-> "technical"]

\* 'Mandatory' if 'must' in lower or 'shall' in lower else 'Desirable'
MustOrShall(lowered) ==
    IF Contains(lowered, <<"m", "u", "s", "t">>) \/ Contains(lowered, <<"s", "h", "a", "l", "l">>)
    THEN "Mandatory" ELSE "Desirable"

\* line 47: group(2).strip() of re.match(r'^(\d+)[\.\)]\s+(.+)', line) for a
\* line without line break, <<>> when there is no match
NumberedText(line) ==
    LET digit == {"0", "1", "2", "3", "4", "5", "6", "7", "8", "9"}
        digits == Cardinality({k \in 1..Len(line) : \A j \in 1..k : line[j] \in digit})
    IN  IF /\ digits >= 1
           /\ Len(line) >= digits + 3
           /\ line[digits + 1] \in {".", ")"}
           /\ line[digits + 2] \in Whitespace
        THEN strip(SubSeq(line, digits + 3, Len(line)))
        ELSE <<>>

\* lines 46-96: what one stripped, non-empty line adds to the list
LineRequirement(line) ==
    LET lower_line == lower(line)
        \* len(line.split()): the runs of characters other than white space
        words == Cardinality({k \in 1..Len(line) :
                                /\ line[k] \notin Whitespace
                                /\ (k = 1 \/ line[k - 1] \in Whitespace)})
    IN  IF Len(line) > 10 /\ Len(NumberedText(line)) > 15
        THEN << Requirement(NumberedText(line), "Mandatory") >>
        ELSE IF startswith(line, <<"-", " ">>) /\ Len(line) > 10
        THEN << Requirement(strip(SubSeq(line, 3, Len(line))), "Desirable") >>
        ELSE IF ContainsAny(lower_line, << <<"n", "e", "e", "d">>, <<"m", "u", "s", "t">>, <<"s", "h", "o", "u", "l", "d">>, <<"r", "e", "q", "u", "i", "r", "e">>,
                                           <<"s", "h", "a", "l", "l">>, <<"h", "a", "s", " ", "t", "o">> >>)
        THEN << Requirement(line, MustOrShall(lower_line)) >>
        ELSE IF /\ Len(line) > 20
                /\ words > 4
                /\ ContainsAny(lower_line, << <<"s", "u", "p", "p", "o", "r", "t">>, <<"p", "r", "o", "v", "i", "d", "e">>, <<"i", "n", "c", "l", "u", "d", "e">>, <<"h", "a", "v", "e">>,
                                              <<"b", "e">>, <<"d", "o">>, <<"w", "o", "r", "k">>, <<"i", "n", "t", "e", "g", "r", "a", "t", "e">> >>)
        THEN << Requirement(line, "Optional") >>
        ELSE <<>>

\* lines 104-144
_extract_by_sentences(text) ==
    LET \* re.split(r'[.!?]+', text): a run of marks cuts once
        marks == {k \in 1..Len(text) : text[k] \in {".", "!", "?"}}
        cuts == {k \in marks : k + 1 \notin marks}
        from(j) == IF j = 1 THEN 1 ELSE Nth(cuts, j - 1) + 1
        upto(j) ==
            LET later == {k \in marks : k >= from(j)}
            IN  IF later = {} THEN Len(text) ELSE Nth(later, 1) - 1
        pieces == [j \in 1..(Cardinality(cuts) + 1) |-> SubSeq(text, from(j), upto(j))]
        sentences == [j \in 1..Len(pieces) |-> strip(pieces[j])]
        keyworded == {j \in 1..Len(sentences) :
                        /\ Len(sentences[j]) >= 20
                        /\ ContainsAny(lower(sentences[j]),
                               << <<"m", "u", "s", "t">>, <<"s", "h", "a", "l", "l">>, <<"s", "h", "o", "u", "l", "d">>, <<"n", "e", "e", "d">>, <<"r", "e", "q", "u", "i", "r", "e">>,
                                  <<"s", "u", "p", "p", "o", "r", "t">>, <<"p", "r", "o", "v", "i", "d", "e">>, <<"i", "n", "c", "l", "u", "d", "e">>, <<"h", "a", "v", "e">>, <<"e", "n", "s", "u", "r", "e">>,
                                  <<"c", "a", "p", "a", "b", "l", "e", " ", "o", "f">>, <<"a", "b", "l", "e", " ", "t", "o">>, <<"c", "o", "m", "p", "l", "y", " ", "w", "i", "t", "h">>, <<"m", "e", "e", "t">> >>)}
        requirements_found ==
            [m \in 1..Cardinality(keyworded) |->
                Requirement(sentences[Nth(keyworded, m)],
                            MustOrShall(lower(sentences[Nth(keyworded, m)])))]
        meaningful == Pick(sentences, {j \in 1..Len(sentences) : Len(sentences[j]) > 30})
        long == SubSeq(meaningful, 1, IF Len(meaningful) < 10 THEN Len(meaningful) ELSE 10)
    IN  IF Len(requirements_found) < 2
        THEN requirements_found
             \o [m \in 1..Len(long) |-> Requirement(long[m], "Optional")]
        ELSE requirements_found

\* lines 30-102
extract_requirements(text) ==
    LET \* text.replace('\r\n', '\n').replace('\r', '\n')
        kept == {k \in 1..Len(text) :
                    ~(text[k] = "\r" /\ k < Len(text) /\ text[k + 1] = "\n")}
        normal == [k \in 1..Cardinality(kept) |->
                      IF text[Nth(kept, k)] = "\r" THEN "\n" ELSE text[Nth(kept, k)]]
        lines == split(normal, "\n")
        found == [j \in 1..Len(lines) |->
                    IF Len(strip(lines[j])) = 0 THEN <<>>
                    ELSE LineRequirement(strip(lines[j]))]
        adding == {j \in 1..Len(lines) : Len(found[j]) > 0}
        requirements_found == [m \in 1..Cardinality(adding) |-> found[Nth(adding, m)][1]]
    IN  IF Len(requirements_found) < 3
        THEN _extract_by_sentences(normal)
        ELSE requirements_found

\* analyzer.py lines 46-61
_create_basic_requirements(text) ==
    LET pieces == split(text, "\n")
        nonempty == Pick([j \in 1..Len(pieces) |-> strip(pieces[j])],
                         {j \in 1..Len(pieces) : Len(strip(pieces[j])) > 0})
        lines == SubSeq(nonempty, 1, IF Len(nonempty) < 15 THEN Len(nonempty) ELSE 15)
        taken == {k \in 1..Len(lines) :
                    /\ Len(lines[k]) > 15
                    /\ ~startswith(lines[k], <<"R", "F", "P">>)
                    /\ ~startswith(lines[k], <<"C", "O", "M", "P", "A", "N", "Y">>)}
    IN  [m \in 1..Cardinality(taken) |->
            Requirement(lines[Nth(taken, m)],
                        IF Nth(taken, m) - 1 < 5 THEN "Mandatory" ELSE "Desirable")]

\* analyzer.py lines 10-44: the 'requirements' entry of the analysis
analyze_rfp(text) ==
    LET requirements_found == extract_requirements(text)
    IN  [requirements |-> IF Len(requirements_found) = 0
                          THEN _create_basic_requirements(text)
                          ELSE requirements_found]

\* req['text'] of every requirement, as match_requirements reads them
Texts(reqs) == [k \in 1..Len(reqs) |-> reqs[k].text]

(***************************************************************************)
(* ChiefOrchestrator: create_project and orchestrate_workflow.             *)
(* project_data is a dictionary: a function from its keys to their values. *)
(* Of the analysis result the requirement list is kept.  Times and the     *)
(* random fields of the discovery result are left out.                     *)
(***************************************************************************)

MaxRuns == 1

\* texts that yield no requirement, one line by the analyzer's fallback, and
\* one keyword sentence that is taken twice
RfpTexts == { <<"a", "u", "d", "i", "t">>, <<"o", "u", "r", " ", "c", "o", "m", "p", "a", "n", "y", " ", "a", "u", "d", "i", "t">>, <<"H", "e", "r", "o", " ", "p", "l", "a", "n", "t", " ", "m", "u", "s", "t", " ", "h", "a", "v", "e", " ", "a", " ", "s", "e", "c", "u", "r", "e", " ", "v", "p", "n">> }

FlowSources == { CatalogFile(<<>>), CatalogFile(<<ItemA, ItemB>>) }

\* d[key] = value
SetKey(d, key, value) ==
    [k \in DOMAIN d \cup {key} |-> IF k = key THEN value ELSE d[k]]

\* lines 16-28: the dictionary create_project stores
NewProject ==
    [project_id |-> "RFP-id",
     rfp_title |-> "title",
     customer_name |-> "customer",
     created_at |-> "now",
     status |-> "initiated",
     agents |-> EmptyDict,
     timeline |-> [start |-> "now", end |-> "None"],
     confidence_score |-> 0]

\* lines 74-84: the customer tier read off the RFP text
CustomerTierOf(text) ==
    LET rfp_lower == lower(text)
    IN  IF ContainsAny(rfp_lower, <<<<"a", "s", "i", "a", "n", " ", "p", "a", "i", "n", "t", "s">>, <<"t", "a", "t", "a", " ", "c", "a", "p", "i", "t", "a", "l">>, <<"h", "e", "r", "o">>,
                                    <<"a", "d", "i", "t", "y", "a", " ", "b", "i", "r", "l", "a">>, <<"f", "i", "r", "s", "t", "s", "o", "u", "r", "c", "e">>>>)
        THEN <<"e", "n", "t", "e", "r", "p", "r", "i", "s", "e">>
        ELSE IF ContainsAny(rfp_lower, <<<<"e", "n", "t", "e", "r", "p", "r", "i", "s", "e">>, <<"c", "o", "r", "p", "o", "r", "a", "t", "i", "o", "n">>, <<"l", "i", "m", "i", "t", "e", "d">>,
                                         <<"l", "t", "d">>, <<"m", "u", "l", "t", "i", "n", "a", "t", "i", "o", "n", "a", "l">>>>)
        THEN <<"e", "n", "t", "e", "r", "p", "r", "i", "s", "e">>
        ELSE IF ContainsAny(rfp_lower, <<<<"c", "o", "m", "p", "a", "n", "y">>, <<"b", "u", "s", "i", "n", "e", "s", "s">>, <<"o", "r", "g", "a", "n", "i", "z", "a", "t", "i", "o", "n">>>>)
        THEN <<"m", "i", "d", "m", "a", "r", "k", "e", "t">>
        ELSE <<"s", "m", "e">>

\* lines 126-136: the boost read off the RFP text, in percent
ContextBoost(text) ==
    LET rfp_lower == lower(text)
    IN  IF ContainsAny(rfp_lower, <<<<"a", "s", "i", "a", "n", " ", "p", "a", "i", "n", "t", "s">>, <<"t", "a", "t", "a", " ", "c", "a", "p", "i", "t", "a", "l">>, <<"h", "e", "r", "o">>,
                                    <<"a", "d", "i", "t", "y", "a", " ", "b", "i", "r", "l", "a">>, <<"f", "i", "r", "s", "t", "s", "o", "u", "r", "c", "e">>>>)
        THEN 25
        ELSE IF ContainsAny(rfp_lower, <<<<"e", "n", "t", "e", "r", "p", "r", "i", "s", "e">>, <<"c", "o", "r", "p", "o", "r", "a", "t", "i", "o", "n">>, <<"m", "u", "l", "t", "i", "n", "a", "t", "i", "o", "n", "a", "l">>>>)
        THEN 15
        ELSE IF ContainsAny(rfp_lower, <<<<"c", "o", "m", "p", "a", "n", "y">>, <<"b", "u", "s", "i", "n", "e", "s", "s">>>>)
        THEN 10
        ELSE 0

\* lines 112-149, in hundredths of a percent; match_rate is in millionths and
\* total_price in paise
_calculate_confidence(requirements_count, match_rate, total_price, text) ==
    LET analysis_conf == IF requirements_count >= 20 THEN 2000 ELSE requirements_count * 100
        matching_conf == (match_rate \div 1000) * 6
        pricing_conf == IF total_price > 0 THEN 2000 ELSE 0
        base_confidence == analysis_conf + matching_conf + pricing_conf
        enterprise_boost ==
            ContextBoost(text)
            + (IF requirements_count >= 10 THEN 5 ELSE 0)
            + (IF total_price >= 100000000 /\ ~OverRupees(total_price, 500000000)
               THEN 5 ELSE 0)
        final_confidence == base_confidence + enterprise_boost * 100
    IN  IF final_confidence > 9500 THEN 9500 ELSE final_confidence

\* variant: the default of .get('matched_products', []) handed over
PricingInput_default(matching_result) == <<>>

\* line 87: matching_result.get('matched_products', [])
PricingInput(matching_result) == matching_result.matched_products

\* line 62: analysis_result.get('requirements', [])
MatchingInput(analysis_result) == analysis_result.requirements

Idle == { "idle", "returned", "raised" }

InitWorkflow ==
    /\ source \in FlowSources
    /\ catalog = <<>>
    /\ customer_tier = <<"s", "m", "e">>
    /\ requirements = <<>>
    /\ pc = "idle"
    /\ i = 0
    /\ searched = <<>>
    /\ matched_products = <<>>
    /\ gaps = <<>>
    /\ result = <<>>
    /\ rfp = <<>>
    /\ workflow_steps = <<>>
    /\ project_data = EmptyDict
    /\ deal_total = NoTotal

\* create_project
CreateProject ==
    /\ pc \in Idle
    /\ project_data' = NewProject
    /\ pc' = "idle"
    /\ UNCHANGED <<deal_total, rfp, workflow_steps, source, customer_tier, catalog, requirements, i, searched, matched_products, gaps, result>>

\* orchestrate_workflow up to line 39; i counts the runs started
StartWorkflow ==
    /\ pc \in Idle
    /\ i < MaxRuns
    /\ rfp' \in RfpTexts
    /\ workflow_steps' = <<>>
    /\ customer_tier' = <<"s", "m", "e">>
    /\ catalog' = <<>>
    /\ requirements' = <<>>
    /\ matched_products' = <<>>
    /\ gaps' = <<>>
    /\ result' = <<>>
    /\ i' = i + 1
    /\ pc' = "discovery"
    /\ UNCHANGED <<deal_total, project_data, source, searched>>

\* lines 42-48
DiscoveryStep ==
    /\ pc = "discovery"
    /\ workflow_steps' = Append(workflow_steps,
           [step |-> "discovery", status |-> "completed", data |-> "discovery_result"])
    /\ pc' = "analysis"
    /\ UNCHANGED <<deal_total, rfp, project_data, source, customer_tier, catalog, requirements, i, searched, matched_products, gaps, result>>

\* lines 51-57
AnalysisStep ==
    /\ pc = "analysis"
    /\ workflow_steps' = Append(workflow_steps,
           [step |-> "analysis", status |-> "completed", data |-> analyze_rfp(rfp)])
    /\ pc' = "matching"
    /\ UNCHANGED <<deal_total, rfp, project_data, source, customer_tier, catalog, requirements, i, searched, matched_products, gaps, result>>

\* lines 60-68: the matcher is built and match_requirements returns
MatchingStep ==
    /\ pc = "matching"
    /\ source.kind = "json"
    /\ LET reqs == Texts(MatchingInput(workflow_steps[2].data))
       IN  /\ catalog' = source.products
           /\ requirements' = reqs
           /\ \E raws \in [1..Len(reqs) -> ReturningOutputs(source.products)] :
                 LET lists == MatchFold(source.products, reqs, raws, Len(reqs))
                 IN  /\ matched_products' = lists.matched_products
                     /\ gaps' = lists.gaps
                     /\ workflow_steps' = Append(workflow_steps,
                            [step |-> "matching", status |-> "completed",
                             data |-> MatchResult(source.products, reqs,
                                                  lists.matched_products, lists.gaps)])
    /\ pc' = "pricing"
    /\ UNCHANGED <<deal_total, rfp, project_data, source, customer_tier, i, searched, result>>

\* lines 60-63 ending in an exception: the file cannot be read, the index
\* cannot be built over no products, or a query raises IndexError
MatchingRaises ==
    /\ pc = "matching"
    /\ \/ source.kind # "json"
       \/ Len(source.products) = 0
       \/ /\ Len(MatchingInput(workflow_steps[2].data)) > 0
          /\ \E raw \in SearchOutputs(Len(source.products)) :
                SearchRaises(source.products, raw)
    /\ pc' = "raised"
    /\ UNCHANGED <<deal_total, rfp, workflow_steps, project_data, source, customer_tier, catalog, requirements, i, searched, matched_products, gaps, result>>

\* lines 71-94
PricingStep ==
    /\ pc = "pricing"
    /\ LET tier == CustomerTierOf(rfp)
           pricing_result == calculate_pricing(source.products,
                                 PricingInput(workflow_steps[3].data), tier)
       IN  /\ customer_tier' = tier
           /\ result' = <<pricing_result>>
           /\ workflow_steps' = Append(workflow_steps,
                  [step |-> "pricing", status |-> "completed", data |-> pricing_result])
    /\ pc' = "finish"
    /\ UNCHANGED <<deal_total, rfp, project_data, source, catalog, requirements, i, searched, matched_products, gaps>>

\* project_data after lines 104-106
AfterStatus(d, steps, confidence) ==
    SetKey(SetKey(SetKey(d, "workflow_steps", steps),
                  "confidence_score", confidence),
           "status", "completed")

\* the confidence of lines 97-102
RunConfidence ==
    _calculate_confidence(Len(workflow_steps[2].data.requirements),
                          workflow_steps[3].data.match_rate,
                          workflow_steps[4].data.total, rfp)

\* lines 97-110
FinishWorkflow ==
    /\ pc = "finish"
    /\ "timeline" \in DOMAIN project_data
    /\ LET d == AfterStatus(project_data, workflow_steps, RunConfidence)
       IN  project_data' =
               SetKey(SetKey(d, "timeline", [d["timeline"] EXCEPT !.end = "now"]),
                      "customer_tier", customer_tier)
    /\ pc' = "returned"
    /\ UNCHANGED <<deal_total, rfp, workflow_steps, source, customer_tier, catalog, requirements, i, searched, matched_products, gaps, result>>

\* lines 97-107 on a project_data without 'timeline': KeyError at line 107
FinishRaises ==
    /\ pc = "finish"
    /\ "timeline" \notin DOMAIN project_data
    /\ project_data' = AfterStatus(project_data, workflow_steps, RunConfidence)
    /\ pc' = "raised"
    /\ UNCHANGED <<deal_total, rfp, workflow_steps, source, customer_tier, catalog, requirements, i, searched, matched_products, gaps, result>>

NextWorkflow ==
    \/ CreateProject
    \/ StartWorkflow
    \/ DiscoveryStep
    \/ AnalysisStep
    \/ MatchingStep
    \/ MatchingRaises
    \/ PricingStep
    \/ FinishWorkflow
    \/ FinishRaises

SpecWorkflow == InitWorkflow /\ [][NextWorkflow]_vars

\* the order in which a run records its steps
StepOrder == <<"discovery", "analysis", "matching", "pricing">>

\* C24: within one run the steps execute in the order analysis, matching,
\* pricing: matching starts only after analysis has completed and is handed
\* exactly its requirement list, pricing starts only after matching has
\* completed and is handed exactly its matched-product list, and the recorded
\* workflow steps appear in that order.
C24_StepsInOrder ==
    /\ Len(workflow_steps) <= Len(StepOrder)
    /\ \A k \in 1..Len(workflow_steps) :
          /\ workflow_steps[k].step = StepOrder[k]
          /\ workflow_steps[k].status = "completed"
    /\ pc = "analysis" => Len(workflow_steps) = 1
    /\ pc = "matching" => Len(workflow_steps) = 2
    /\ pc = "pricing" => Len(workflow_steps) = 3
    /\ pc = "finish" => Len(workflow_steps) = 4
    /\ Len(workflow_steps) >= 3 =>
          /\ workflow_steps[2].data = analyze_rfp(rfp)
          /\ requirements = Texts(workflow_steps[2].data.requirements)
          /\ workflow_steps[3].data.total_requirements = Len(requirements)
          /\ workflow_steps[3].data.matched_products = matched_products
    /\ Len(workflow_steps) >= 4 =>
          workflow_steps[4].data =
              calculate_pricing(source.products, workflow_steps[3].data.matched_products,
                                customer_tier)

C24_Witness ==
    /\ pc = "returned"
    /\ Len(workflow_steps) = 4
    /\ Len(workflow_steps[2].data.requirements) > 0
    /\ Len(workflow_steps[3].data.matched_products) > 0
    /\ Len(workflow_steps[4].data.line_items) = 4

\* C28: whenever project_data has status 'completed', its timeline end is set
\* and its workflow_steps holds the four completed steps of the run.
C28_CompletedIsFinished ==
    ("status" \in DOMAIN project_data /\ project_data["status"] = "completed") =>
        /\ "timeline" \in DOMAIN project_data
        /\ project_data["timeline"].end # "None"
        /\ "workflow_steps" \in DOMAIN project_data
        /\ Len(project_data["workflow_steps"]) = 4
        /\ \A k \in 1..4 :
              /\ project_data["workflow_steps"][k].step = StepOrder[k]
              /\ project_data["workflow_steps"][k].status = "completed"

\* the position of the first match carrying the sku
FirstOccurrence(matches, sku) ==
    CHOOSE k \in 1..Len(matches) :
        /\ matches[k].matched_sku = sku
        /\ \A j \in 1..(k - 1) : matches[j].matched_sku # sku

\* the sku is that of some product of the catalog
InCatalog(products, sku) == \E k \in 1..Len(products) : products[k].sku = sku

\* C25: there is exactly one product line per distinct matched sku present in
\* the catalog, in the order of the skus' first occurrence in the matched
\* list, with the number of matches carrying the sku as quantity; the
\* implementation, maintenance and training lines follow in that order.
C25_OneLinePerSku ==
    pc = "pricing_done" =>
        LET lines == ProductLineItems(result[1])
        IN  /\ \A k \in 1..Len(lines) :
                  /\ InCatalog(catalog, lines[k].sku)
                  /\ lines[k].quantity = QuantityOf(matched_products, lines[k].sku)
                  /\ lines[k].quantity >= 1
            /\ \A j, k \in 1..Len(lines) : lines[j].sku = lines[k].sku => j = k
            /\ \A m \in 1..Len(matched_products) :
                  InCatalog(catalog, matched_products[m].matched_sku)
                      => \E k \in 1..Len(lines) : lines[k].sku = matched_products[m].matched_sku
            /\ \A j, k \in 1..Len(lines) :
                  j < k => FirstOccurrence(matched_products, lines[j].sku)
                               < FirstOccurrence(matched_products, lines[k].sku)
            /\ ImplementationLine(result[1]).sku = <<"S", "E", "R", "V", "-", "I", "M", "P">>
            /\ MaintenanceLine(result[1]).sku = <<"M", "A", "I", "N", "T", "-", "A", "N", "N", "U", "A", "L">>
            /\ TrainingLine(result[1]).sku = <<"T", "R", "A", "I", "N", "-", "E", "N", "T", "E", "R", "P", "R", "I", "S", "E">>

C25_Witness ==
    /\ pc = "pricing_done"
    /\ Len(result[1].line_items) = 5
    /\ result[1].line_items[1].sku = ItemB.sku
    /\ result[1].line_items[1].quantity = 1
    /\ result[1].line_items[2].sku = ItemA.sku
    /\ result[1].line_items[2].quantity > 1

\* the sum of the quantities of the given lines
RECURSIVE SumQuantity(_)
SumQuantity(lines) ==
    IF Len(lines) = 0 THEN 0 ELSE Head(lines).quantity + SumQuantity(Tail(lines))

\* C30: the quantities of the product lines sum to the number of matches
\* handed in: no match is dropped, whether or not its sku is in the catalog
\* the pricing agent loaded.
C30_EveryMatchCounted ==
    pc = "pricing_done" =>
        SumQuantity(ProductLineItems(result[1])) = Len(matched_products)

(***************************************************************************)
(* Payment terms and competitive positioning as functions of the total:    *)
(* lines 111-117 and _get_competitive_positioning on totals around the     *)
(* thresholds, which lie beyond what a catalog of two products reaches.    *)
(***************************************************************************)

MaxOffset == 8

\* the thresholds of lines 112, 114 and 152-157, in rupees
Thresholds == { 5000000, 10000000, 50000000 }

TotalsAroundThresholds ==
    { [rupees |-> t + off, paise |-> p] :
          t \in Thresholds \cup {MaxOffset}, off \in (0 - MaxOffset)..MaxOffset,
          p \in {0, 1, 99} }

InitBrackets ==
    /\ catalog = <<>>
    /\ source = CatalogFile(catalog)
    /\ customer_tier = <<"s", "m", "e">>
    /\ requirements = <<>>
    /\ pc = "brackets_call"
    /\ i = 0
    /\ searched = <<>>
    /\ matched_products = <<>>
    /\ gaps = <<>>
    /\ result = <<>>
    /\ rfp = <<>>
    /\ workflow_steps = <<>>
    /\ project_data = EmptyDict
    /\ deal_total \in TotalsAroundThresholds

\* lines 111-117 and line 132 for the total at hand
BracketsCall ==
    /\ pc = "brackets_call"
    /\ result' = << [payment_terms |-> PaymentTermsAt(deal_total.rupees, deal_total.paise),
                     competitive_positioning |->
                         PositioningAt(deal_total.rupees, deal_total.paise)] >>
    /\ pc' = "brackets_done"
    /\ UNCHANGED <<deal_total, rfp, workflow_steps, project_data, source, customer_tier, catalog, requirements, i, searched, matched_products, gaps>>

NextBrackets == BracketsCall

SpecBrackets == InitBrackets /\ [][NextBrackets]_vars

\* the bracket of a payment-terms text and of a positioning label, from the
\* lowest (1) up
TermsRank(terms) ==
    CASE terms = "50% advance, 50% on delivery" -> 1
      [] terms = "40% advance, 60% on delivery" -> 2
      [] terms = "30% advance, 40% on delivery, 30% after UAT" -> 3

LabelRank(label) ==
    CASE label = "Cost-effective solution for SME digital transformation" -> 1
      [] label = "Value-optimized solution balancing features and cost for mid-market" -> 2
      [] label = "Competitively priced for large enterprise deployments with strong ROI" -> 3
      [] label = "Premium enterprise solution with comprehensive support and customization" -> 4

\* the total is at most the given number of rupees
AtMost(total, rupees) ==
    total.rupees < rupees \/ (total.rupees = rupees /\ total.paise = 0)

\* C26: payment terms come from three brackets of the total (above 10,000,000;
\* above 5,000,000 up to 10,000,000; the rest) and the positioning label from
\* four (thresholds 50,000,000 / 10,000,000 / 5,000,000, all strict); neither
\* falls when the total grows by a paisa or a rupee, and the three-milestone
\* terms go exactly with the two highest labels.
C26_Brackets ==
    pc = "brackets_done" =>
        LET terms == TermsRank(result[1].payment_terms)
            label == LabelRank(result[1].competitive_positioning)
        IN  /\ terms = (IF ~AtMost(deal_total, 10000000) THEN 3
                        ELSE IF ~AtMost(deal_total, 5000000) THEN 2 ELSE 1)
            /\ label = (IF ~AtMost(deal_total, 50000000) THEN 4
                        ELSE IF ~AtMost(deal_total, 10000000) THEN 3
                        ELSE IF ~AtMost(deal_total, 5000000) THEN 2 ELSE 1)
            /\ terms <= TermsRank(PaymentTermsAt(deal_total.rupees, deal_total.paise + 1))
            /\ terms <= TermsRank(PaymentTermsAt(deal_total.rupees + 1, deal_total.paise))
            /\ label <= LabelRank(PositioningAt(deal_total.rupees, deal_total.paise + 1))
            /\ label <= LabelRank(PositioningAt(deal_total.rupees + 1, deal_total.paise))
            /\ terms = 3 <=> label \in {3, 4}

C26_Witness ==
    /\ pc = "brackets_done"
    /\ deal_total = [rupees |-> 10000000, paise |-> 0]
    /\ result[1].payment_terms = "40% advance, 60% on delivery"
    /\ LabelRank(result[1].competitive_positioning) = 2

C26_WitnessTop ==
    /\ pc = "brackets_done"
    /\ deal_total = [rupees |-> 50000000, paise |-> 1]
    /\ result[1].payment_terms = "30% advance, 40% on delivery, 30% after UAT"
    /\ LabelRank(result[1].competitive_positioning) = 4

\* C27: an item whose name or category contains 'manufactur' or 'plant', for
\* a requirement that mentions 'manufactur', 'plant' or 'factory', is returned
\* when no earlier item satisfies any of the four conditions, this one read
\* the same way.
C27_CategoryCounts ==
    pc = "keyword_done" =>
        LET text == lower(requirements[1])
            mentions == ContainsAny(text, <<<<"m", "a", "n", "u", "f", "a", "c", "t", "u", "r">>, <<"p", "l", "a", "n", "t">>, <<"f", "a", "c", "t", "o", "r", "y">>>>)
            named(product) ==
                \E w \in { <<"m", "a", "n", "u", "f", "a", "c", "t", "u", "r">>, <<"p", "l", "a", "n", "t">> } :
                    \/ Contains(lower(product.name), w)
                    \/ Contains(lower(product.category), w)
        IN  \A k \in 1..Len(catalog) :
                ( /\ mentions
                  /\ named(catalog[k])
                  /\ \A j \in 1..(k - 1) :
                        /\ ~KeywordHit(catalog[j], text)
                        /\ ~named(catalog[j]) )
                    => result = <<catalog[k]>>

\* C29: every matched product's reported similarity_score, the value rounded
\* to three decimals, is above 0.5, and its confidence is High exactly when the
\* reported score is above 0.7.
C29_ReportedScoreThresholds ==
    \A k \in 1..Len(matched_products) :
        /\ matched_products[k].similarity_score > 500000
        /\ matched_products[k].confidence = "High"
              <=> matched_products[k].similarity_score > 700000

====
